---- MODULE Spec2Model ----
(***************************************************************************)
(* Model of blooms-builder: the TOS sufficiency analysis                   *)
(* (src/services/analysis/sufficiencyAnalysis.ts and its variants) and the *)
(* rule-based question classifier (supabase/functions/classify-questions). *)
(*                                                                         *)
(* Strings are sequences of one-character strings, so that toLowerCase,    *)
(* replace, trim, includes and startsWith are computed character by        *)
(* character as the JavaScript does.                                       *)
(***************************************************************************)
EXTENDS Integers, Sequences, FiniteSets, TLC

VARIABLES
    pc,            \* position of the modelled request
    tosMatrix,     \* argument of analyzeTOSSufficiency
    rawQuestions,  \* rows of the questions table
    variant,       \* which definition of analyzeTOSSufficiency is deployed
    analysis,      \* value returned (or error thrown) by analyzeTOSSufficiency
    previous,      \* value returned by the analysis before the last table change
    touched,       \* the row changed since the last analysis: "none", "deleted" or "live"
    question,      \* the question sent to classify-questions
    guess,         \* value returned by guessBloomAndKD
    response,      \* response of the classify-questions handler
    request,       \* body of the request sent to semantic-similarity
    corpus,        \* rows of the questions table the similarity search reads
    stored,        \* rows written to the question_similarities table
    similar,       \* response of the semantic-similarity handler
    search,        \* locals of the semantic-similarity handler between its awaits
    vectorText,    \* argument of generateSemanticVector
    vector,        \* value returned by generateSemanticVector
    questionRows,  \* rows of the questions table the validation workflow updates
    validations,   \* rows of the classification_validations table
    reviewFlights, \* requests validation-workflow has not answered yet
    reviewResponse, \* response of the validation-workflow handler
    reviewCalls,   \* number of requests sent to validation-workflow
    rubricTable,   \* rows of the rubrics table
    criteriaTable, \* rows of the rubric_criteria table
    rubricFlights, \* requests sent to the rubrics endpoint, answered or not
    rubricResponse, \* the last response of the rubrics endpoint
    rubricCalls,   \* number of requests sent to the rubrics endpoint
    analyticsRows, \* rows of the questions table useAnalytics reads
    changeEvents,  \* realtime change events not yet delivered
    changes,       \* number of changes of the table so far
    fetches,       \* the calls of fetchAnalytics, in the order they started
    analytics,     \* the state of the useAnalytics hook
    original,      \* argument of shuffleQuestionChoices
    shuffledQuestion, \* value returned by shuffleQuestionChoices
    examFormat,    \* index of the exam format in EXAM_FORMATS
    itemsRequested, \* the totalItems argument
    scaledSections, \* value returned by scaledFormatSections
    requirements,  \* value returned by getFormatRequirements
    genRequest,    \* the request sent to generate-questions
    genReply,      \* what the AI service answered
    checksPassed,  \* the checks the request has passed, in order
    insertedRows,  \* rows inserted into the questions table
    genResponse    \* response of the generate-questions handler

vars == <<pc, variant, tosMatrix, rawQuestions, analysis, previous, touched,
          question, guess, response, request, corpus, stored, similar, search,
          vectorText, vector, questionRows, validations, reviewFlights, reviewResponse,
          reviewCalls, rubricTable, criteriaTable, rubricFlights, rubricResponse,
          rubricCalls, analyticsRows, changeEvents, changes, fetches, analytics,
          original, shuffledQuestion, examFormat, itemsRequested, scaledSections,
          requirements, genRequest, genReply, checksPassed, insertedRows, genResponse>>

sufficiencyVars == <<tosMatrix, rawQuestions, analysis, previous, touched>>
classifierVars  == <<question, guess, response>>
similarityVars  == <<request, corpus, stored, similar, search>>
vectorVars      == <<vectorText, vector>>
reviewVars      == <<questionRows, validations, reviewFlights, reviewResponse, reviewCalls>>
rubricVars      == <<rubricTable, criteriaTable, rubricFlights, rubricResponse,
                     rubricCalls>>
analyticsVars   == <<analyticsRows, changeEvents, changes, fetches, analytics>>
shuffleVars     == <<original, shuffledQuestion>>
formatVars      == <<examFormat, itemsRequested, scaledSections, requirements>>
generateVars    == <<genRequest, genReply, checksPassed, insertedRows, genResponse>>
laterVars       == <<vectorVars, reviewVars, rubricVars, analyticsVars, shuffleVars,
                     formatVars, generateVars>>

\* JavaScript undefined, where a string is expected
Nil == <<"undefined">>

-----------------------------------------------------------------------------
(* String primitives *)

UpperChars == <<"A","B","C","D","E","F","G","H","I","J","K","L","M",
                "N","O","P","Q","R","S","T","U","V","W","X","Y","Z">>
LowerChars == <<"a","b","c","d","e","f","g","h","i","j","k","l","m",
                "n","o","p","q","r","s","t","u","v","w","x","y","z">>

\* the characters /\s/ matches, among those the model uses
Whitespace == {" ", "\t", "\n"}

toLowerChar(c) ==
    IF \E i \in 1..26 : UpperChars[i] = c
    THEN LowerChars[CHOOSE i \in 1..26 : UpperChars[i] = c]
    ELSE c

\* String.prototype.toLowerCase
toLowerCase(s) == [i \in 1..Len(s) |-> toLowerChar(s[i])]

\* String.prototype.startsWith
startsWith(s, p) == Len(p) <= Len(s) /\ SubSeq(s, 1, Len(p)) = p

\* String.prototype.includes
includes(s, p) ==
    \/ p = <<>>
    \/ \E i \in 1..(Len(s) - Len(p) + 1) :
          s[i] = p[1] /\ SubSeq(s, i, i + Len(p) - 1) = p

\* s.replace(/[_\-]/g, " ")
replaceSeparators(s) ==
    [i \in 1..Len(s) |-> IF s[i] \in {"_", "-"} THEN " " ELSE s[i]]

\* s.replace(/\s+/g, " "): every maximal run of whitespace becomes one space
RECURSIVE collapseSpaces(_)
collapseSpaces(s) ==
    IF s = <<>> THEN <<>>
    ELSE IF Head(s) \in Whitespace
         THEN IF Len(s) > 1 /\ s[2] \in Whitespace
              THEN collapseSpaces(Tail(s))
              ELSE <<" ">> \o collapseSpaces(Tail(s))
         ELSE <<Head(s)>> \o collapseSpaces(Tail(s))

RECURSIVE trimStart(_)
trimStart(s) ==
    IF s # <<>> /\ Head(s) \in Whitespace THEN trimStart(Tail(s)) ELSE s

RECURSIVE trimEnd(_)
trimEnd(s) ==
    IF s # <<>> /\ s[Len(s)] \in Whitespace
    THEN trimEnd(SubSeq(s, 1, Len(s) - 1))
    ELSE s

\* String.prototype.trim
trim(s) == trimEnd(trimStart(s))

\* a || b on values that are strings or undefined ("" is falsy)
OrElse(a, b) == IF a = Nil \/ a = <<>> THEN b ELSE a

-----------------------------------------------------------------------------
(* sufficiencyAnalysis.ts, first definition (lines 1-147) *)

\* function normalize(text: string = "")
normalize(text) ==
    LET t == IF text = Nil THEN <<>> ELSE text
    IN  trim(collapseSpaces(replaceSeparators(toLowerCase(t))))

\* topicsMatch in one direction only: the question's topic contains the TOS topic
topicsMatchOneWay(t1, t2) == includes(t1, t2)

topicsMatch(t1, t2) == includes(t1, t2) \/ includes(t2, t1)

S_remembering   == <<"r","e","m","e","m","b","e","r","i","n","g">>
S_understanding == <<"u","n","d","e","r","s","t","a","n","d","i","n","g">>
S_applying      == <<"a","p","p","l","y","i","n","g">>
S_analyzing     == <<"a","n","a","l","y","z","i","n","g">>
S_evaluating    == <<"e","v","a","l","u","a","t","i","n","g">>
S_creating      == <<"c","r","e","a","t","i","n","g">>

\* const bloomLevels = [...].map(normalize)
bloomLevels ==
    LET raw == <<S_remembering, S_understanding, S_applying,
                 S_analyzing, S_evaluating, S_creating>>
    IN  [i \in 1..6 |-> normalize(raw[i])]

\* questionsOf with the .filter(q => !q.deleted) dropped
questionsOfUnfiltered(raw) ==
    [i \in 1..Len(raw) |->
        [topic |-> normalize(raw[i].topic), bloom |-> normalize(raw[i].bloom_level)]]

\* rawQuestions.filter(q => !q.deleted).map(q => ({...q, topic, bloom}))
questionsOf(raw) ==
    LET kept == SelectSeq(raw, LAMBDA q : ~q.deleted)
    IN  [i \in 1..Len(kept) |->
            [topic |-> normalize(kept[i].topic),
             bloom |-> normalize(kept[i].bloom_level)]]

\* topic[`${bloom}_items`] || 0
requiredOf(topic, bloom) ==
    IF bloom \in DOMAIN topic.items THEN topic.items[bloom] ELSE 0

\* sufficiencyOf with the warning threshold at 0.6 * required
sufficiencyOfLoose(available, required) ==
    IF available >= required THEN "pass"
    ELSE IF 10 * available >= 6 * required THEN "warning"
    ELSE "fail"

\* available >= required ? "pass" : available >= required * 0.7 ? "warning" : "fail"
\* (required * 0.7 compared exactly: 10 * available >= 7 * required)
sufficiencyOf(available, required) ==
    IF available >= required THEN "pass"
    ELSE IF 10 * available >= 7 * required THEN "warning"
    ELSE "fail"

\* cellStep with totalAvailable += Math.min(available, required)
cellStepCapped(acc, questions, topicName, topic, bloom) ==
    LET required  == requiredOf(topic, bloom)
        matched   == SelectSeq(questions,
                        LAMBDA q : topicsMatch(q.topic, topicName) /\ q.bloom = bloom)
        available == Len(matched)
        gap       == IF required - available > 0 THEN required - available ELSE 0
    IN  IF required = 0 THEN acc
        ELSE [results |-> Append(acc.results,
                 [topic |-> topicName, bloomLevel |-> bloom,
                  required |-> required, available |-> available, gap |-> gap,
                  sufficiency |-> IF available >= required THEN "pass"
                                  ELSE IF 10 * available >= 7 * required THEN "warning"
                                  ELSE "fail"]),
              totalRequired  |-> acc.totalRequired + required,
              totalAvailable |-> acc.totalAvailable
                                 + (IF available < required THEN available ELSE required)]

\* body of the inner loop for one (topic, bloom) cell, applied to the running
\* results / totalRequired / totalAvailable
cellStep(acc, questions, topicName, topic, bloom) ==
    LET required  == requiredOf(topic, bloom)
        matched   == SelectSeq(questions,
                        LAMBDA q : topicsMatch(q.topic, topicName) /\ q.bloom = bloom)
        available == Len(matched)
        gap       == IF required - available > 0 THEN required - available ELSE 0
    IN  IF required = 0 THEN acc
        ELSE [results |-> Append(acc.results,
                 [topic |-> topicName, bloomLevel |-> bloom,
                  required |-> required, available |-> available, gap |-> gap,
                  sufficiency |-> sufficiencyOf(available, required)]),
              totalRequired  |-> acc.totalRequired + required,
              totalAvailable |-> acc.totalAvailable + available]

\* for (const bloom of bloomLevels) {...} for one topic, from level i on
RECURSIVE topicLoop(_, _, _, _, _)
topicLoop(acc, questions, topicName, topic, i) ==
    IF i > Len(bloomLevels) THEN acc
    ELSE topicLoop(cellStep(acc, questions, topicName, topic, bloomLevels[i]),
                   questions, topicName, topic, i + 1)

\* for (const topic of tosMatrix.topics || []) {...}, from topic k on;
\* names[k] is the normalized name of topics[k]
RECURSIVE matrixLoop(_, _, _, _, _)
matrixLoop(acc, questions, topics, names, k) ==
    IF k > Len(topics) THEN acc
    ELSE matrixLoop(topicLoop(acc, questions, names[k], topics[k], 1),
                    questions, topics, names, k + 1)

RECURSIVE SumField(_, _)
SumField(rows, f) ==
    IF rows = <<>> THEN 0 ELSE Head(rows)[f] + SumField(Tail(rows), f)

\* overallScore = totalRequired > 0 ? (totalAvailable / totalRequired) * 100 : 0,
\* kept as the exact fraction num/den
overallScoreOf(totalRequired, totalAvailable) ==
    IF totalRequired > 0
    THEN [num |-> 100 * totalAvailable, den |-> totalRequired]
    ELSE [num |-> 0, den |-> 1]

\* overallScore >= 100 ? "pass" : overallScore >= 70 ? "warning" : "fail"
overallStatusOf(score) ==
    IF score.num >= 100 * score.den THEN "pass"
    ELSE IF score.num >= 70 * score.den THEN "warning"
    ELSE "fail"

\* recommendations: whether the first line is "AI will generate N questions ..."
\* (otherwise "All required questions exist in the bank."), N, and the rows itemized
recommendationsOf(results) ==
    LET missing == SelectSeq(results, LAMBDA r : r.gap > 0)
    IN  IF Len(missing) > 0
        THEN [asksGenerator |-> TRUE,
              generate |-> SumField(missing, "gap"), itemized |-> missing]
        ELSE [asksGenerator |-> FALSE, generate |-> 0, itemized |-> <<>>]

Thrown(msg) == [threw |-> TRUE, error |-> msg]

EmptyAcc == [results |-> <<>>, totalRequired |-> 0, totalAvailable |-> 0]

Returned(acc, recommendations) ==
    LET overallScore == overallScoreOf(acc.totalRequired, acc.totalAvailable)
    IN  [threw |-> FALSE,
         overallStatus   |-> overallStatusOf(overallScore),
         overallScore    |-> overallScore,
         totalRequired   |-> acc.totalRequired,
         totalAvailable  |-> acc.totalAvailable,
         results         |-> acc.results,
         recommendations |-> recommendations]

\* export async function analyzeTOSSufficiency(tosMatrix)
analyzeTOSSufficiency(matrix, raw, err) ==
    IF err THEN Thrown("Unable to analyze question bank.")
    ELSE IF matrix.isNull THEN Thrown("TypeError")
    ELSE
    LET questions == questionsOf(raw)
        topics    == IF matrix.hasTopics THEN matrix.topics ELSE <<>>
        names     == [k \in 1..Len(topics) |->
                        normalize(OrElse(topics[k].topic_name, topics[k].topic))]
        acc       == matrixLoop(EmptyAcc, questions, topics, names, 1)
    IN  Returned(acc, recommendationsOf(acc.results))

-----------------------------------------------------------------------------
(* unnamed/part_004: the variant that lower-cases and trims only *)

\* (s || "").toLowerCase().trim()
lowerTrim(s) == trim(toLowerCase(IF s = Nil THEN <<>> ELSE s))

allQuestionsOf(raw) ==
    LET kept == SelectSeq(raw, LAMBDA q : ~q.deleted)
    IN  [i \in 1..Len(kept) |->
            [topic |-> lowerTrim(kept[i].topic),
             bloom |-> lowerTrim(kept[i].bloom_level)]]

\* the single line "AI will generate N additional questions."
recommendationsLine(results) ==
    LET missing == SelectSeq(results, LAMBDA r : r.gap > 0)
    IN  IF Len(missing) > 0
        THEN [asksGenerator |-> TRUE,
              generate |-> SumField(missing, "gap"), itemized |-> <<>>]
        ELSE [asksGenerator |-> FALSE, generate |-> 0, itemized |-> <<>>]

analyzeTOSSufficiencyLowerTrim(matrix, raw, err) ==
    IF err THEN Thrown("Failed to analyze question bank sufficiency")
    ELSE IF matrix.isNull THEN Thrown("TypeError")
    ELSE
    LET allQuestions == allQuestionsOf(raw)
        topics    == IF matrix.hasTopics THEN matrix.topics ELSE <<>>
        names     == [k \in 1..Len(topics) |->
                        lowerTrim(OrElse(OrElse(topics[k].topic_name, topics[k].topic), <<>>))]
        acc       == matrixLoop(EmptyAcc, allQuestions, topics, names, 1)
    IN  Returned(acc, recommendationsLine(acc.results))

-----------------------------------------------------------------------------
(* JavaScript values and plain objects.  A value is a number, NaN, a string, *)
(* a native function, the object Object.prototype, or undefined; a plain     *)
(* object ({}) is the sequence of its own entries in insertion order, and a  *)
(* key it does not own is looked up in Object.prototype.  The text of a      *)
(* native function is the one V8 gives.                                      *)

Number(n)            == [type |-> "number",    n |-> n, s |-> <<>>]
NotANumber           == [type |-> "NaN",       n |-> 0, s |-> <<>>]
Text(chars)          == [type |-> "string",    n |-> 0, s |-> chars]
NativeFunction(name) == [type |-> "function",  n |-> 0, s |-> name]
ObjectPrototype      == [type |-> "object",    n |-> 0, s |-> <<>>]
Undefined            == [type |-> "undefined", n |-> 0, s |-> <<>>]

Digits == <<"0","1","2","3","4","5","6","7","8","9">>

isDigit(c) == \E d \in 1..10 : Digits[d] = c

digitValue(c) == (CHOOSE d \in 1..10 : Digits[d] = c) - 1

\* Number.prototype.toString for an integer
RECURSIVE decimal(_)
decimal(n) ==
    IF n < 0 THEN <<"-">> \o decimal(0 - n)
    ELSE IF n < 10 THEN <<Digits[n + 1]>>
    ELSE decimal(n \div 10) \o <<Digits[(n % 10) + 1]>>

\* the value of a string of digits
RECURSIVE parseDigits(_)
parseDigits(chars) ==
    IF chars = <<>> THEN 0
    ELSE 10 * parseDigits(SubSeq(chars, 1, Len(chars) - 1)) + digitValue(chars[Len(chars)])

\* ToString
toText(v) ==
    CASE v.type = "number"    -> decimal(v.n)
      [] v.type = "NaN"       -> <<"N","a","N">>
      [] v.type = "string"    -> v.s
      [] v.type = "function"  ->
            <<"f","u","n","c","t","i","o","n"," ">> \o v.s \o <<"(",")"," ","{"," ","[","n","a","t","i","v","e"," ","c","o","d","e","]"," ","}">>
      [] v.type = "object"    -> <<"[","o","b","j","e","c","t"," ","O","b","j","e","c","t","]">>
      [] v.type = "undefined" -> <<"u","n","d","e","f","i","n","e","d">>

\* ToNumber; of the strings only "" and the strings of digits are read as
\* numbers, every other string that arises here holds the text of a function
\* or of an object
toNumber(v) ==
    CASE v.type = "number" -> v
      [] v.type = "string" ->
            IF \A i \in 1..Len(v.s) : isDigit(v.s[i]) THEN Number(parseDigits(v.s))
            ELSE NotANumber
      [] OTHER -> NotANumber

\* ToBoolean
truthy(v) ==
    CASE v.type = "number" -> v.n # 0
      [] v.type = "string" -> v.s # <<>>
      [] v.type \in {"function", "object"} -> TRUE
      [] OTHER -> FALSE

\* v || 0
orZero(v) == IF truthy(v) THEN v ELSE Number(0)

\* a + b: a sum of numbers, or the concatenation of the two texts when one of
\* them is a string, a function or an object
plus(a, b) ==
    IF a.type \in {"string", "function", "object"} \/ b.type \in {"string", "function", "object"}
    THEN Text(toText(a) \o toText(b))
    ELSE IF a.type = "number" /\ b.type = "number" THEN Number(a.n + b.n)
    ELSE NotANumber

\* a - b
minus(a, b) ==
    LET x == toNumber(a)
        y == toNumber(b)
    IN  IF x.type = "number" /\ y.type = "number" THEN Number(x.n - y.n) ELSE NotANumber

\* Math.max(0, v)
mathMax0(v) ==
    LET x == toNumber(v)
    IN  IF x.type = "number" THEN (IF x.n > 0 THEN x ELSE Number(0)) ELSE NotANumber

\* the names Object.prototype carries, and the name of the function under each
OBJECT_PROTOTYPE ==
    << [key |-> <<"c","o","n","s","t","r","u","c","t","o","r">>, name |-> <<"O","b","j","e","c","t">>],
       [key |-> <<"_","_","d","e","f","i","n","e","G","e","t","t","e","r","_","_">>, name |-> <<"_","_","d","e","f","i","n","e","G","e","t","t","e","r","_","_">>],
       [key |-> <<"_","_","d","e","f","i","n","e","S","e","t","t","e","r","_","_">>, name |-> <<"_","_","d","e","f","i","n","e","S","e","t","t","e","r","_","_">>],
       [key |-> <<"h","a","s","O","w","n","P","r","o","p","e","r","t","y">>, name |-> <<"h","a","s","O","w","n","P","r","o","p","e","r","t","y">>],
       [key |-> <<"_","_","l","o","o","k","u","p","G","e","t","t","e","r","_","_">>, name |-> <<"_","_","l","o","o","k","u","p","G","e","t","t","e","r","_","_">>],
       [key |-> <<"_","_","l","o","o","k","u","p","S","e","t","t","e","r","_","_">>, name |-> <<"_","_","l","o","o","k","u","p","S","e","t","t","e","r","_","_">>],
       [key |-> <<"i","s","P","r","o","t","o","t","y","p","e","O","f">>, name |-> <<"i","s","P","r","o","t","o","t","y","p","e","O","f">>],
       [key |-> <<"p","r","o","p","e","r","t","y","I","s","E","n","u","m","e","r","a","b","l","e">>, name |-> <<"p","r","o","p","e","r","t","y","I","s","E","n","u","m","e","r","a","b","l","e">>],
       [key |-> <<"t","o","S","t","r","i","n","g">>, name |-> <<"t","o","S","t","r","i","n","g">>],
       [key |-> <<"v","a","l","u","e","O","f">>, name |-> <<"v","a","l","u","e","O","f">>],
       [key |-> <<"t","o","L","o","c","a","l","e","S","t","r","i","n","g">>, name |-> <<"t","o","L","o","c","a","l","e","S","t","r","i","n","g">>] >>

\* the accessor __proto__
PROTO_KEY == <<"_","_","p","r","o","t","o","_","_">>

owns(obj, key) == \E i \in 1..Len(obj) : obj[i].name = key

\* obj[key]
objectGet(obj, key) ==
    IF owns(obj, key) THEN obj[CHOOSE i \in 1..Len(obj) : obj[i].name = key].value
    ELSE IF key = PROTO_KEY THEN ObjectPrototype
    ELSE IF \E i \in 1..Len(OBJECT_PROTOTYPE) : OBJECT_PROTOTYPE[i].key = key
    THEN NativeFunction(OBJECT_PROTOTYPE[CHOOSE i \in 1..Len(OBJECT_PROTOTYPE) :
                                            OBJECT_PROTOTYPE[i].key = key].name)
    ELSE Undefined

\* obj[key] = value; assigning a number or a string to __proto__ does nothing
objectSet(obj, key, value) ==
    IF key = PROTO_KEY THEN obj
    ELSE IF owns(obj, key)
    THEN [i \in 1..Len(obj) |-> IF obj[i].name = key THEN [name |-> key, value |-> value]
                                ELSE obj[i]]
    ELSE Append(obj, [name |-> key, value |-> value])

\* acc[key] = (acc[key] || 0) + 1
countInto(acc, key) == objectSet(acc, key, plus(orZero(objectGet(acc, key)), Number(1)))

\* the largest array index, 2^32 - 2
MAX_INDEX == <<"4","2","9","4","9","6","7","2","9","4">>

\* a <= b for two strings of digits of the same length
RECURSIVE digitsLeq(_, _)
digitsLeq(a, b) ==
    IF a = <<>> THEN TRUE
    ELSE IF digitValue(Head(a)) # digitValue(Head(b))
    THEN digitValue(Head(a)) < digitValue(Head(b))
    ELSE digitsLeq(Tail(a), Tail(b))

\* the key is the canonical text of an integer from 0 to 2^32 - 2
isArrayIndex(key) ==
    /\ key # <<>>
    /\ \A i \in 1..Len(key) : isDigit(key[i])
    /\ key[1] = "0" => Len(key) = 1
    /\ \/ Len(key) < Len(MAX_INDEX)
       \/ Len(key) = Len(MAX_INDEX) /\ digitsLeq(key, MAX_INDEX)

\* a < b for two array indices
indexLess(a, b) ==
    \/ Len(a) < Len(b)
    \/ Len(a) = Len(b) /\ a # b /\ digitsLeq(a, b)

\* Object.entries(obj): the array indices in ascending order, then the other
\* keys in the order they were added
objectEntries(obj) ==
    LET indexed == { i \in 1..Len(obj) : isArrayIndex(obj[i].name) }
        rank(i) == Cardinality({ j \in indexed : indexLess(obj[j].name, obj[i].name) }) + 1
        first == [k \in 1..Cardinality(indexed) |->
                     obj[CHOOSE i \in indexed : rank(i) = k]]
    IN  first \o SelectSeq(obj, LAMBDA e : ~isArrayIndex(e.name))

-----------------------------------------------------------------------------
(* unnamed/part_005: the variant that counts per topic, by exact name *)

\* s.toLowerCase().replace(/[^a-z0-9 ]/g, "").trim()
normalizeStrict(s) ==
    LET Kept == {LowerChars[i] : i \in 1..26}
                \cup {"0","1","2","3","4","5","6","7","8","9"," "}
    IN  trim(SelectSeq(toLowerCase(s), LAMBDA c : c \in Kept))

\* .eq("approved", true).eq("deleted", false), then the keys of topicMap
usableTopics(raw) ==
    LET rows == SelectSeq(raw, LAMBDA q : q.approved /\ ~q.deleted)
    IN  [i \in 1..Len(rows) |-> normalizeStrict(OrElse(rows[i].topic, <<>>))]

\* data.forEach(q => { topicMap[key] = (topicMap[key] || 0) + 1 }) on {}
RECURSIVE groupByTopic(_, _)
groupByTopic(keys, topicMap) ==
    IF keys = <<>> THEN topicMap
    ELSE groupByTopic(Tail(keys), countInto(topicMap, Head(keys)))

\* topicMap[key] || 0
topicCount(keys, key) == orZero(objectGet(groupByTopic(keys, <<>>), key))

\* (topic.remembering_items || 0) + ... + (topic.creating_items || 0)
requiredOfTopic(topic) ==
    requiredOf(topic, S_remembering) + requiredOf(topic, S_understanding)
    + requiredOf(topic, S_applying) + requiredOf(topic, S_analyzing)
    + requiredOf(topic, S_evaluating) + requiredOf(topic, S_creating)

\* available >= required ? "pass" : available >= required * 0.7 ? "warning" : "fail";
\* a comparison with a value that is no number is false
sufficiencyOfValue(available, required) ==
    LET x == toNumber(available)
    IN  IF x.type = "number" THEN sufficiencyOf(x.n, required) ELSE "fail"

EmptyAccByTopic == [results |-> <<>>, totalRequired |-> 0, totalAvailable |-> Number(0)]

\* body of the loop over tosMatrix.topics for one topic
topicStep(acc, keys, topic) ==
    LET topicName == normalizeStrict(OrElse(topic.topic_name, topic.topic))
        required  == requiredOfTopic(topic)
        available == topicCount(keys, topicName)
        gap       == mathMax0(minus(Number(required), available))
    IN  [results |-> Append(acc.results,
            [topic |-> topicName, required |-> required, available |-> available,
             gap |-> gap, sufficiency |-> sufficiencyOfValue(available, required)]),
         totalRequired  |-> acc.totalRequired + required,
         totalAvailable |-> plus(acc.totalAvailable, available)]

RECURSIVE topicsLoop(_, _, _, _)
topicsLoop(acc, keys, topics, k) ==
    IF k > Len(topics) THEN acc
    ELSE topicsLoop(topicStep(acc, keys, topics[k]), keys, topics, k + 1)

\* a score that is NaN, kept as 0/0
NaNScore == [num |-> 0, den |-> 0]

\* totalRequired > 0 ? (totalAvailable / totalRequired) * 100 : 0
overallScoreOfValue(totalRequired, totalAvailable) ==
    LET x == toNumber(totalAvailable)
    IN  IF totalRequired > 0
        THEN IF x.type = "number" THEN [num |-> 100 * x.n, den |-> totalRequired]
             ELSE NaNScore
        ELSE [num |-> 0, den |-> 1]

\* overallScore >= 100 ? "pass" : overallScore >= 70 ? "warning" : "fail"
overallStatusOfValue(score) ==
    IF score = NaNScore THEN "fail" ELSE overallStatusOf(score)

\* overallStatus === "pass" ? ["All required ..."] : ["AI will generate
\* ${totalRequired - totalAvailable} additional questions ..."]
recommendationsByTotals(acc) ==
    LET status == overallStatusOfValue(
                      overallScoreOfValue(acc.totalRequired, acc.totalAvailable))
    IN  IF status = "pass"
        THEN [asksGenerator |-> FALSE, generate |-> Number(0), itemized |-> <<>>]
        ELSE [asksGenerator |-> TRUE,
              generate |-> minus(Number(acc.totalRequired), acc.totalAvailable),
              itemized |-> <<>>]

analyzeTOSSufficiencyByTopic(matrix, raw, err) ==
    IF err THEN Thrown("Failed to analyze question bank sufficiency")
    ELSE IF matrix.isNull THEN Thrown("TypeError")
    ELSE
    LET keys   == usableTopics(raw)
        topics == IF matrix.hasTopics THEN matrix.topics ELSE <<>>
    IN  IF \E k \in 1..Len(topics) : OrElse(topics[k].topic_name, topics[k].topic) = Nil
        THEN Thrown("TypeError")
        ELSE LET acc == topicsLoop(EmptyAccByTopic, keys, topics, 1)
                 overallScore == overallScoreOfValue(acc.totalRequired, acc.totalAvailable)
             IN  [threw |-> FALSE,
                  overallStatus   |-> overallStatusOfValue(overallScore),
                  overallScore    |-> overallScore,
                  totalRequired   |-> acc.totalRequired,
                  totalAvailable  |-> acc.totalAvailable,
                  results         |-> acc.results,
                  recommendations |-> recommendationsByTotals(acc)]

-----------------------------------------------------------------------------
(* supabase/functions/classify-questions/index.ts, rule-based definition *)

\* const BLOOM_VERB_MAP, in insertion order (the order of Object.entries)
BLOOM_VERB_MAP == <<
    [verb |-> <<"d","e","f","i","n","e">>, bloom |-> "remembering"],
    [verb |-> <<"l","i","s","t">>, bloom |-> "remembering"],
    [verb |-> <<"r","e","c","a","l","l">>, bloom |-> "remembering"],
    [verb |-> <<"i","d","e","n","t","i","f","y">>, bloom |-> "remembering"],
    [verb |-> <<"n","a","m","e">>, bloom |-> "remembering"],
    [verb |-> <<"s","t","a","t","e">>, bloom |-> "remembering"],
    [verb |-> <<"r","e","c","o","g","n","i","z","e">>, bloom |-> "remembering"],
    [verb |-> <<"s","e","l","e","c","t">>, bloom |-> "remembering"],
    [verb |-> <<"m","a","t","c","h">>, bloom |-> "remembering"],
    [verb |-> <<"c","h","o","o","s","e">>, bloom |-> "remembering"],
    [verb |-> <<"l","a","b","e","l">>, bloom |-> "remembering"],
    [verb |-> <<"l","o","c","a","t","e">>, bloom |-> "remembering"],
    [verb |-> <<"e","x","p","l","a","i","n">>, bloom |-> "understanding"],
    [verb |-> <<"d","e","s","c","r","i","b","e">>, bloom |-> "understanding"],
    [verb |-> <<"s","u","m","m","a","r","i","z","e">>, bloom |-> "understanding"],
    [verb |-> <<"i","n","t","e","r","p","r","e","t">>, bloom |-> "understanding"],
    [verb |-> <<"c","l","a","s","s","i","f","y">>, bloom |-> "understanding"],
    [verb |-> <<"c","o","m","p","a","r","e">>, bloom |-> "understanding"],
    [verb |-> <<"c","o","n","t","r","a","s","t">>, bloom |-> "understanding"],
    [verb |-> <<"i","l","l","u","s","t","r","a","t","e">>, bloom |-> "understanding"],
    [verb |-> <<"t","r","a","n","s","l","a","t","e">>, bloom |-> "understanding"],
    [verb |-> <<"p","a","r","a","p","h","r","a","s","e">>, bloom |-> "understanding"],
    [verb |-> <<"c","o","n","v","e","r","t">>, bloom |-> "understanding"],
    [verb |-> <<"d","i","s","c","u","s","s">>, bloom |-> "understanding"],
    [verb |-> <<"a","p","p","l","y">>, bloom |-> "applying"],
    [verb |-> <<"u","s","e">>, bloom |-> "applying"],
    [verb |-> <<"e","x","e","c","u","t","e">>, bloom |-> "applying"],
    [verb |-> <<"i","m","p","l","e","m","e","n","t">>, bloom |-> "applying"],
    [verb |-> <<"s","o","l","v","e">>, bloom |-> "applying"],
    [verb |-> <<"d","e","m","o","n","s","t","r","a","t","e">>, bloom |-> "applying"],
    [verb |-> <<"o","p","e","r","a","t","e">>, bloom |-> "applying"],
    [verb |-> <<"c","a","l","c","u","l","a","t","e">>, bloom |-> "applying"],
    [verb |-> <<"s","h","o","w">>, bloom |-> "applying"],
    [verb |-> <<"c","o","m","p","l","e","t","e">>, bloom |-> "applying"],
    [verb |-> <<"m","o","d","i","f","y">>, bloom |-> "applying"],
    [verb |-> <<"r","e","l","a","t","e">>, bloom |-> "applying"],
    [verb |-> <<"a","n","a","l","y","z","e">>, bloom |-> "analyzing"],
    [verb |-> <<"e","x","a","m","i","n","e">>, bloom |-> "analyzing"],
    [verb |-> <<"i","n","v","e","s","t","i","g","a","t","e">>, bloom |-> "analyzing"],
    [verb |-> <<"c","a","t","e","g","o","r","i","z","e">>, bloom |-> "analyzing"],
    [verb |-> <<"d","i","f","f","e","r","e","n","t","i","a","t","e">>, bloom |-> "analyzing"],
    [verb |-> <<"d","i","s","t","i","n","g","u","i","s","h">>, bloom |-> "analyzing"],
    [verb |-> <<"o","r","g","a","n","i","z","e">>, bloom |-> "analyzing"],
    [verb |-> <<"d","e","c","o","n","s","t","r","u","c","t">>, bloom |-> "analyzing"],
    [verb |-> <<"b","r","e","a","k","d","o","w","n">>, bloom |-> "analyzing"],
    [verb |-> <<"s","e","p","a","r","a","t","e">>, bloom |-> "analyzing"],
    [verb |-> <<"o","r","d","e","r">>, bloom |-> "analyzing"],
    [verb |-> <<"c","o","n","n","e","c","t">>, bloom |-> "analyzing"],
    [verb |-> <<"e","v","a","l","u","a","t","e">>, bloom |-> "evaluating"],
    [verb |-> <<"a","s","s","e","s","s">>, bloom |-> "evaluating"],
    [verb |-> <<"j","u","d","g","e">>, bloom |-> "evaluating"],
    [verb |-> <<"c","r","i","t","i","q","u","e">>, bloom |-> "evaluating"],
    [verb |-> <<"j","u","s","t","i","f","y">>, bloom |-> "evaluating"],
    [verb |-> <<"d","e","f","e","n","d">>, bloom |-> "evaluating"],
    [verb |-> <<"s","u","p","p","o","r","t">>, bloom |-> "evaluating"],
    [verb |-> <<"a","r","g","u","e">>, bloom |-> "evaluating"],
    [verb |-> <<"d","e","c","i","d","e">>, bloom |-> "evaluating"],
    [verb |-> <<"r","a","t","e">>, bloom |-> "evaluating"],
    [verb |-> <<"p","r","i","o","r","i","t","i","z","e">>, bloom |-> "evaluating"],
    [verb |-> <<"r","e","c","o","m","m","e","n","d">>, bloom |-> "evaluating"],
    [verb |-> <<"c","r","e","a","t","e">>, bloom |-> "creating"],
    [verb |-> <<"d","e","s","i","g","n">>, bloom |-> "creating"],
    [verb |-> <<"d","e","v","e","l","o","p">>, bloom |-> "creating"],
    [verb |-> <<"c","o","n","s","t","r","u","c","t">>, bloom |-> "creating"],
    [verb |-> <<"g","e","n","e","r","a","t","e">>, bloom |-> "creating"],
    [verb |-> <<"p","r","o","d","u","c","e">>, bloom |-> "creating"],
    [verb |-> <<"p","l","a","n">>, bloom |-> "creating"],
    [verb |-> <<"c","o","m","p","o","s","e">>, bloom |-> "creating"],
    [verb |-> <<"f","o","r","m","u","l","a","t","e">>, bloom |-> "creating"],
    [verb |-> <<"b","u","i","l","d">>, bloom |-> "creating"],
    [verb |-> <<"i","n","v","e","n","t">>, bloom |-> "creating"],
    [verb |-> <<"c","o","m","b","i","n","e">>, bloom |-> "creating"]
>>

\* const KNOWLEDGE_DIMENSION_MAP, in insertion order
KNOWLEDGE_DIMENSION_MAP == <<
    [verb |-> <<"d","e","f","i","n","e">>, kd |-> "factual"],
    [verb |-> <<"l","i","s","t">>, kd |-> "factual"],
    [verb |-> <<"n","a","m","e">>, kd |-> "factual"],
    [verb |-> <<"i","d","e","n","t","i","f","y">>, kd |-> "factual"],
    [verb |-> <<"r","e","c","a","l","l">>, kd |-> "factual"],
    [verb |-> <<"r","e","c","o","g","n","i","z","e">>, kd |-> "factual"],
    [verb |-> <<"s","e","l","e","c","t">>, kd |-> "factual"],
    [verb |-> <<"m","a","t","c","h">>, kd |-> "factual"],
    [verb |-> <<"e","x","p","l","a","i","n">>, kd |-> "conceptual"],
    [verb |-> <<"c","l","a","s","s","i","f","y">>, kd |-> "conceptual"],
    [verb |-> <<"c","o","m","p","a","r","e">>, kd |-> "conceptual"],
    [verb |-> <<"s","u","m","m","a","r","i","z","e">>, kd |-> "conceptual"],
    [verb |-> <<"i","n","t","e","r","p","r","e","t">>, kd |-> "conceptual"],
    [verb |-> <<"i","l","l","u","s","t","r","a","t","e">>, kd |-> "conceptual"],
    [verb |-> <<"c","o","n","t","r","a","s","t">>, kd |-> "conceptual"],
    [verb |-> <<"d","i","s","c","u","s","s">>, kd |-> "conceptual"],
    [verb |-> <<"a","p","p","l","y">>, kd |-> "procedural"],
    [verb |-> <<"u","s","e">>, kd |-> "procedural"],
    [verb |-> <<"i","m","p","l","e","m","e","n","t">>, kd |-> "procedural"],
    [verb |-> <<"e","x","e","c","u","t","e">>, kd |-> "procedural"],
    [verb |-> <<"d","e","m","o","n","s","t","r","a","t","e">>, kd |-> "procedural"],
    [verb |-> <<"c","a","l","c","u","l","a","t","e">>, kd |-> "procedural"],
    [verb |-> <<"s","o","l","v","e">>, kd |-> "procedural"],
    [verb |-> <<"o","p","e","r","a","t","e">>, kd |-> "procedural"],
    [verb |-> <<"c","o","n","s","t","r","u","c","t">>, kd |-> "procedural"],
    [verb |-> <<"e","v","a","l","u","a","t","e">>, kd |-> "metacognitive"],
    [verb |-> <<"a","s","s","e","s","s">>, kd |-> "metacognitive"],
    [verb |-> <<"j","u","d","g","e">>, kd |-> "metacognitive"],
    [verb |-> <<"c","r","i","t","i","q","u","e">>, kd |-> "metacognitive"],
    [verb |-> <<"j","u","s","t","i","f","y">>, kd |-> "metacognitive"],
    [verb |-> <<"r","e","f","l","e","c","t">>, kd |-> "metacognitive"],
    [verb |-> <<"p","l","a","n">>, kd |-> "metacognitive"],
    [verb |-> <<"m","o","n","i","t","o","r">>, kd |-> "metacognitive"]
>>

\* const KNOWLEDGE_INDICATORS, in insertion order
KNOWLEDGE_INDICATORS == <<
    [kd |-> "factual", indicators |-> <<
        <<"w","h","a","t"," ","i","s">>,
        <<"d","e","f","i","n","e">>,
        <<"l","i","s","t">>,
        <<"n","a","m","e">>,
        <<"i","d","e","n","t","i","f","y">>,
        <<"w","h","e","n">>,
        <<"w","h","e","r","e">>,
        <<"w","h","o">>,
        <<"w","h","i","c","h">>,
        <<"w","h","a","t"," ","y","e","a","r">>,
        <<"h","o","w"," ","m","a","n","y">>>>],
    [kd |-> "conceptual", indicators |-> <<
        <<"e","x","p","l","a","i","n">>,
        <<"c","o","m","p","a","r","e">>,
        <<"c","o","n","t","r","a","s","t">>,
        <<"r","e","l","a","t","i","o","n","s","h","i","p">>,
        <<"w","h","y">>,
        <<"h","o","w"," ","d","o","e","s">>,
        <<"p","r","i","n","c","i","p","l","e">>,
        <<"t","h","e","o","r","y">>,
        <<"m","o","d","e","l">>,
        <<"f","r","a","m","e","w","o","r","k">>>>],
    [kd |-> "procedural", indicators |-> <<
        <<"c","a","l","c","u","l","a","t","e">>,
        <<"s","o","l","v","e">>,
        <<"d","e","m","o","n","s","t","r","a","t","e">>,
        <<"p","e","r","f","o","r","m">>,
        <<"h","o","w"," ","t","o">>,
        <<"s","t","e","p","s">>,
        <<"p","r","o","c","e","d","u","r","e">>,
        <<"m","e","t","h","o","d">>,
        <<"a","l","g","o","r","i","t","h","m">>>>],
    [kd |-> "metacognitive", indicators |-> <<
        <<"e","v","a","l","u","a","t","e">>,
        <<"a","s","s","e","s","s">>,
        <<"b","e","s","t"," ","m","e","t","h","o","d">>,
        <<"m","o","s","t"," ","a","p","p","r","o","p","r","i","a","t","e">>,
        <<"s","t","r","a","t","e","g","y">>,
        <<"a","p","p","r","o","a","c","h">>,
        <<"r","e","f","l","e","c","t">>,
        <<"m","o","n","i","t","o","r">>>>]
>>

(* IEEE doubles near a multiple of 0.1: [t, e] stands for the double that lies    *)
(* e * 2^-53 away from the double nearest to t / 10.  FAddTable lists x + d for  *)
(* every x and d (in tenths) the confidence computation can reach, as computed   *)
(* in binary64: 0.7 + 0.1 is 0.7999999999999999, not the double nearest to 0.8.  *)
Dbl(t) == [t |-> t, e |-> 0]
\* the double NaN: a value of its own, equal to no [t, e]
NaN == [kind |-> "NaN", neg |-> FALSE, digits |-> <<>>, exp |-> 0]
FAddTable ==
    { <<4, 0, 1, 5, 0>>,   <<5, 0, -1, 4, 0>>,  <<5, 0, 1, 6, 0>>,   <<5, 0, 2, 7, 0>>,
      <<6, 0, -1, 5, 0>>,  <<6, 0, 1, 7, 0>>,   <<7, 0, -1, 6, 0>>,  <<7, 0, 1, 8, -1>>,
      <<7, 0, 2, 9, -1>>,  <<8, -1, -1, 7, 0>>, <<8, -1, 1, 9, -1>>, <<9, -1, -1, 8, -1>>,
      <<9, -1, 1, 10, -1>>, <<10, -1, 1, 11, -2>> }

\* x + d in binary64, d a multiple of 0.1 given in tenths
FAdd(x, d) ==
    IF d = 0 THEN x
    ELSE LET r == CHOOSE r \in FAddTable : r[1] = x.t /\ r[2] = x.e /\ r[3] = d
         IN  [t |-> r[4], e |-> r[5]]

\* x < y on doubles (false when either is NaN)
FLess(x, y) ==
    /\ x # NaN /\ y # NaN
    /\ (x.t < y.t \/ (x.t = y.t /\ x.e < y.e))

\* Math.min(1, Math.max(0.1, confidence))
clamp(confidence) ==
    LET lo == IF FLess(confidence, Dbl(1)) THEN Dbl(1) ELSE confidence
    IN  IF FLess(Dbl(10), lo) THEN Dbl(10) ELSE lo

\* Math.round(x * 100) / 100: the nearest hundredth, here a tenth
round2(x) == Dbl(x.t)

\* t.split(/\s+/).length: one more than the number of maximal whitespace runs
wordCountOf(t) ==
    1 + Cardinality({ i \in 1..Len(t) :
            t[i] \in Whitespace /\ (i = 1 \/ t[i - 1] \notin Whitespace) })

\* t.includes(` ${verb} `) || t.startsWith(verb) || t.includes(`${verb}:`)
bloomVerbHit(t, verb) ==
    \/ includes(t, <<" ">> \o verb \o <<" ">>)
    \/ startsWith(t, verb)
    \/ includes(t, verb \o <<":">>)

\* t.includes(` ${verb} `) || t.startsWith(verb)
kdVerbHit(t, verb) ==
    \/ includes(t, <<" ">> \o verb \o <<" ">>)
    \/ startsWith(t, verb)

\* indicators.some(indicator => t.includes(indicator))
indicatorHit(t, indicators) ==
    \E n \in 1..Len(indicators) : includes(t, indicators[n])

\* index of the last entry of a table the predicate holds for, 0 if none
LastHit(hits) ==
    IF \E i \in DOMAIN hits : hits[i]
    THEN CHOOSE i \in DOMAIN hits : hits[i] /\ \A j \in DOMAIN hits : j > i => ~hits[j]
    ELSE 0

\* index of the first entry of a table the predicate holds for, 0 if none
FirstHit(hits) ==
    IF \E i \in DOMAIN hits : hits[i]
    THEN CHOOSE i \in DOMAIN hits : hits[i] /\ \A j \in 1..(i - 1) : ~hits[j]
    ELSE 0

\* essayOverride with the override left out
essayOverrideOff(type, kd) == kd

\* if (type === 'essay' && bestKD === 'factual') bestKD = 'conceptual'
essayOverride(type, kd) ==
    IF type = "essay" /\ kd = "factual" THEN "conceptual" ELSE kd

\* indicatorScan without the test of verbHits
indicatorScanAlways(t, verbHits) ==
    FirstHit([i \in 1..Len(KNOWLEDGE_INDICATORS) |->
                 indicatorHit(t, KNOWLEDGE_INDICATORS[i].indicators)])

\* if (verbHits === 0) { for (const [kd, indicators] of ...) ... }: index of the
\* first entry of KNOWLEDGE_INDICATORS with a hit, 0 if none or not scanned
indicatorScan(t, verbHits) ==
    IF verbHits = 0
    THEN FirstHit([i \in 1..Len(KNOWLEDGE_INDICATORS) |->
                      indicatorHit(t, KNOWLEDGE_INDICATORS[i].indicators)])
    ELSE 0

\* the body of guessBloomAndKD up to its return statement: bestBloom, bestKD and
\* the confidence before clamping
scoreBloomAndKD(text, type) ==
    LET t == toLowerCase(text)
        bi == FirstHit([i \in 1..Len(BLOOM_VERB_MAP) |-> bloomVerbHit(t, BLOOM_VERB_MAP[i].verb)])
        verbHits  == IF bi > 0 THEN 1 ELSE 0
        bestBloom == IF bi > 0 THEN BLOOM_VERB_MAP[bi].bloom ELSE "understanding"
        ki == FirstHit([i \in 1..Len(KNOWLEDGE_DIMENSION_MAP) |->
                            kdVerbHit(t, KNOWLEDGE_DIMENSION_MAP[i].verb)])
        ii == indicatorScan(t, verbHits)
        kdHits == (IF ki > 0 THEN 1 ELSE 0) + (IF ii > 0 THEN 1 ELSE 0)
        kd1 == IF ki > 0 THEN KNOWLEDGE_DIMENSION_MAP[ki].kd ELSE "conceptual"
        kd2 == IF ii > 0 THEN KNOWLEDGE_INDICATORS[ii].kd ELSE kd1
        bestKD == essayOverride(type, kd2)
        wordCount == wordCountOf(t)
        c1 == FAdd(Dbl(5), verbHits * 2)
        c2 == FAdd(c1, kdHits)
        c3 == IF wordCount < 8 THEN FAdd(c2, -1) ELSE c2
        c4 == IF wordCount > 25 THEN FAdd(c3, 1) ELSE c3
        c5 == IF type = "mcq" /\ includes(t, <<"w","h","i","c","h"," ","o","f"," ",
                     "t","h","e"," ","f","o","l","l","o","w","i","n","g">>)
              THEN FAdd(c4, 1) ELSE c4
        c6 == IF type = "essay" /\ bestBloom = "creating" THEN FAdd(c5, 1) ELSE c5
    IN  [bloom_level |-> bestBloom,
         knowledge_dimension |-> bestKD,
         confidence |-> c6]

\* guessBloomAndKD returning the clamped confidence as a percentage
guessBloomAndKDPercent(text, type) ==
    LET s == scoreBloomAndKD(text, type)
    IN  [bloom_level |-> s.bloom_level,
         knowledge_dimension |-> s.knowledge_dimension,
         confidence |-> Dbl(10 * clamp(s.confidence).t)]

\* function guessBloomAndKD(text, type): the return statement
guessBloomAndKD(text, type) ==
    LET s == scoreBloomAndKD(text, type)
    IN  [bloom_level |-> s.bloom_level,
         knowledge_dimension |-> s.knowledge_dimension,
         confidence |-> clamp(s.confidence)]

\* const easyIndicators = [...]
easyIndicators ==
    << <<"s","i","m","p","l","e">>,
       <<"b","a","s","i","c">>,
       <<"e","l","e","m","e","n","t","a","r","y">>,
       <<"s","t","r","a","i","g","h","t","f","o","r","w","a","r","d">>,
       <<"f","u","n","d","a","m","e","n","t","a","l">> >>

\* const difficultIndicators = [...]
difficultIndicators ==
    << <<"c","o","m","p","l","e","x">>,
       <<"a","d","v","a","n","c","e","d">>,
       <<"s","o","p","h","i","s","t","i","c","a","t","e","d">>,
       <<"i","n","t","r","i","c","a","t","e">>,
       <<"c","o","m","p","r","e","h","e","n","s","i","v","e">> >>

\* t.match(/[,:;()-]/g)?.length ?? 0
complexityScoreOf(t) ==
    Cardinality({ i \in 1..Len(t) : t[i] \in {",", ":", ";", "(", ")", "-"} })

\* the part of guessDifficulty after the keyword tests: structure, then level
structuralDifficulty(t, type, bloom) ==
    LET wordCount == wordCountOf(t)
        complexityScore == complexityScoreOf(t)
    IN  IF type = "essay" \/ complexityScore > 6 \/ wordCount > 30 THEN "difficult"
        ELSE IF wordCount > 15 \/ complexityScore > 3 THEN "average"
        ELSE IF bloom = "remembering" \/ bloom = "understanding" THEN "easy"
        ELSE IF bloom = "evaluating" \/ bloom = "creating" THEN "difficult"
        ELSE "average"

\* guessDifficulty with the structural tests ahead of the keyword tests
guessDifficultyStructureFirst(text, type, bloom) ==
    LET t == toLowerCase(text)
    IN  IF type = "essay" \/ complexityScoreOf(t) > 6 \/ wordCountOf(t) > 30 THEN "difficult"
        ELSE IF indicatorHit(t, easyIndicators) THEN "easy"
        ELSE IF indicatorHit(t, difficultIndicators) THEN "difficult"
        ELSE structuralDifficulty(t, type, bloom)

\* function guessDifficulty(text, type, bloom)
guessDifficulty(text, type, bloom) ==
    LET t == toLowerCase(text)
    IN  IF indicatorHit(t, easyIndicators) THEN "easy"
        ELSE IF indicatorHit(t, difficultIndicators) THEN "difficult"
        ELSE structuralDifficulty(t, type, bloom)

\* const needs_review = confidence < 0.7
needsReview(confidence) == FLess(confidence, Dbl(7))

\* one element of payload.map(...): the classification record of one question
classify(text, type) ==
    LET g == guessBloomAndKD(text, type)
    IN  [cognitive_level |-> g.bloom_level,
         bloom_level |-> g.bloom_level,
         difficulty |-> guessDifficulty(text, type, g.bloom_level),
         knowledge_dimension |-> g.knowledge_dimension,
         confidence |-> round2(g.confidence),
         needs_review |-> needsReview(g.confidence)]

\* classificationInputSchema: text of 10 to 5000 characters, type one of the
\* four, topic absent or of 2 to 200 characters
schemaAccepts(q) ==
    /\ Len(q.text) >= 10 /\ Len(q.text) <= 5000
    /\ q.type \in {"mcq", "true_false", "essay", "short_answer"}
    /\ (q.topic = Nil \/ (Len(q.topic) >= 2 /\ Len(q.topic) <= 200))

\* the serve handler: authorization header, getUser, schema, payload.map
serveRules(auth, q) ==
    IF auth = "missing" THEN [status |-> 401, error |-> "Missing authorization header", records |-> <<>>]
    ELSE IF auth = "rejected" THEN [status |-> 401, error |-> "Unauthorized", records |-> <<>>]
    ELSE IF ~schemaAccepts(q) THEN [status |-> 400, error |-> "Invalid input", records |-> <<>>]
    ELSE [status |-> 200, error |-> "", records |-> <<classify(q.text, q.type)>>]

-----------------------------------------------------------------------------
(* supabase/functions/classify-questions/index.ts, OpenAI definition.  The *)
(* reply of the model is read with JSON.parse and used as it comes: its     *)
(* confidence is whatever JSON value the reply holds under that key, or     *)
(* undefined when it holds none.                                            *)
(*                                                                          *)
(* A number of the reply is kept as the decimal its numeral writes: a sign, *)
(* the digits d1 .. dn with d1 and dn not 0, and exp, for the value         *)
(* 0.d1...dn * 10^exp; zero has no digits.  The double is the one nearest   *)
(* to that decimal.  Exponents beyond a million either way are kept as a    *)
(* million: such a decimal is far outside the range of doubles.             *)
Finite(neg, digits, exp) == [kind |-> "finite", neg |-> neg, digits |-> digits, exp |-> exp]
Infinity(neg)            == [kind |-> "Infinity", neg |-> neg, digits |-> <<>>, exp |-> 0]

\* how many zeros a sequence of digits starts with, and ends with
leadingZeros(ds) ==
    CHOOSE k \in 0..Len(ds) :
        /\ \A i \in 1..k : ds[i] = 0
        /\ (k = Len(ds) \/ ds[k + 1] # 0)

trailingZeros(ds) ==
    CHOOSE k \in 0..Len(ds) :
        /\ \A i \in (Len(ds) - k + 1)..Len(ds) : ds[i] = 0
        /\ (k = Len(ds) \/ ds[Len(ds) - k] # 0)

\* the decimal 0.ds * 10^exp with the sign given
Decimal(neg, ds, exp) ==
    IF leadingZeros(ds) = Len(ds) THEN Finite(neg, <<>>, 0)
    ELSE LET e == exp - leadingZeros(ds)
         IN  Finite(neg,
                    SubSeq(ds, leadingZeros(ds) + 1, Len(ds) - trailingZeros(ds)),
                    IF e > 1000000 THEN 1000000 ELSE IF e < -1000000 THEN -1000000 ELSE e)

\* the values of classification.confidence; an array is kept as the text
\* its elements join to, which is how `<` reads it
JsonNumber(x)   == [json |-> "number",    number |-> x,   string |-> <<>>]
JsonString(s)   == [json |-> "string",    number |-> NaN, string |-> s]
JsonBoolean(b)  == [json |-> "boolean",
                    number |-> IF b THEN Decimal(FALSE, <<1>>, 1) ELSE Decimal(FALSE, <<>>, 0),
                    string |-> <<>>]
JsonNull        == [json |-> "null",      number |-> NaN, string |-> <<>>]
JsonArray(text) == [json |-> "array",     number |-> NaN, string |-> text]
JsonUndefined   == [json |-> "undefined", number |-> NaN, string |-> <<>>]

digitsOf(s) == [i \in 1..Len(s) |-> digitValue(s[i])]

RECURSIVE natOf(_)
natOf(ds) ==
    IF ds = <<>> THEN 0
    ELSE 10 * natOf(SubSeq(ds, 1, Len(ds) - 1)) + ds[Len(ds)]

\* the value of the digits of an ExponentPart
exponentOf(ds) ==
    LET significant == SubSeq(ds, leadingZeros(ds) + 1, Len(ds))
    IN  IF Len(significant) > 7 THEN 10000000 ELSE natOf(significant)

\* the readings of s as a decimal literal: a digits, a point (p = 1) or none,
\* b digits, an e or E (x = 1) or none with a sign (g = 1) or none, and c
\* digits up to the end; at least one digit before the exponent part, and at
\* least one in it
decimalShapes(s) ==
    { t \in (0..Len(s)) \X (0..1) \X (0..Len(s)) \X (0..1) \X (0..1) :
        LET a == t[1]
            p == t[2]
            b == t[3]
            x == t[4]
            g == t[5]
            c == Len(s) - (a + p + b + x + g)
        IN  /\ c >= 0
            /\ a + b >= 1
            /\ (p = 0 => b = 0)
            /\ (x = 0 => g = 0 /\ c = 0)
            /\ (x = 1 => c >= 1)
            /\ \A i \in 1..a : isDigit(s[i])
            /\ (p = 1 => s[a + 1] = ".")
            /\ \A i \in (a + p + 1)..(a + p + b) : isDigit(s[i])
            /\ (x = 1 => s[a + p + b + 1] \in {"e", "E"})
            /\ (g = 1 => s[a + p + b + 2] \in {"+", "-"})
            /\ \A i \in (Len(s) - c + 1)..Len(s) : isDigit(s[i]) }

\* the decimal a reading writes
decimalOf(neg, s, t) ==
    LET power == exponentOf(digitsOf(SubSeq(s, t[1] + t[2] + t[3] + t[4] + t[5] + 1, Len(s))))
    IN  Decimal(neg,
                digitsOf(SubSeq(s, 1, t[1]))
                    \o digitsOf(SubSeq(s, t[1] + t[2] + 1, t[1] + t[2] + t[3])),
                t[1] + (IF t[4] = 0 THEN 0
                        ELSE IF t[5] = 1 /\ s[t[1] + t[2] + t[3] + 2] = "-" THEN 0 - power
                        ELSE power))

\* StrUnsignedDecimalLiteral: Infinity, or the decimal literal the text is;
\* NaN for a text of another form
unsignedDecimal(neg, s) ==
    IF s = <<"I","n","f","i","n","i","t","y">> THEN Infinity(neg)
    ELSE IF decimalShapes(s) = {} THEN NaN
    ELSE CHOOSE r \in { decimalOf(neg, s, t) : t \in decimalShapes(s) } : TRUE

\* the radix a NonDecimalIntegerLiteral announces (0x, 0o, 0b), 0 if none
radixOf(s) ==
    IF Len(s) >= 2 /\ s[1] = "0"
    THEN CASE s[2] \in {"x", "X"} -> 16
           [] s[2] \in {"o", "O"} -> 8
           [] s[2] \in {"b", "B"} -> 2
           [] OTHER -> 0
    ELSE 0

RadixDigits == <<"0","1","2","3","4","5","6","7","8","9","a","b","c","d","e","f">>

\* the value of a digit in the radix, the radix itself for another character
radixDigitValue(c, radix) ==
    LET lower == toLowerCase(<<c>>)[1]
    IN  IF \E d \in 1..radix : RadixDigits[d] = lower
        THEN (CHOOSE d \in 1..radix : RadixDigits[d] = lower) - 1
        ELSE radix

RECURSIVE carryDigits(_)
carryDigits(carry) ==
    IF carry = 0 THEN <<>> ELSE Append(carryDigits(carry \div 10), carry % 10)

\* ds * radix + carry, on decimal digits
RECURSIVE timesPlus(_, _, _)
timesPlus(ds, radix, carry) ==
    IF ds = <<>> THEN carryDigits(carry)
    ELSE LET v == ds[Len(ds)] * radix + carry
         IN  Append(timesPlus(SubSeq(ds, 1, Len(ds) - 1), radix, v \div 10), v % 10)

\* the decimal digits of the number the text writes in the radix
RECURSIVE radixDigitsOf(_, _)
radixDigitsOf(s, radix) ==
    IF s = <<>> THEN <<>>
    ELSE timesPlus(radixDigitsOf(SubSeq(s, 1, Len(s) - 1), radix), radix,
                   radixDigitValue(s[Len(s)], radix))

\* NonDecimalIntegerLiteral: the prefix and at least one digit of the radix
nonDecimal(s) ==
    LET radix == radixOf(s)
        body  == SubSeq(s, 3, Len(s))
        value == radixDigitsOf(body, radix)
    IN  IF Len(body) >= 1 /\ \A i \in 1..Len(body) : radixDigitValue(body[i], radix) < radix
        THEN Decimal(FALSE, value, Len(value))
        ELSE NaN

\* StringToNumber: the white space around the text is dropped and the empty
\* text is 0; then a NonDecimalIntegerLiteral, or a decimal literal with an
\* optional sign; NaN for any other text
stringToNumber(s) ==
    LET t == trim(s)
    IN  IF t = <<>> THEN Decimal(FALSE, <<>>, 0)
        ELSE IF radixOf(t) # 0 THEN nonDecimal(t)
        ELSE IF t[1] \in {"+", "-"}
        THEN IF Len(t) = 1 THEN NaN ELSE unsignedDecimal(t[1] = "-", Tail(t))
        ELSE unsignedDecimal(FALSE, t)

\* ToNumber, as `<` applies it to an operand whose other operand is a number
toDouble(v) ==
    CASE v.json = "number"    -> v.number
      [] v.json = "string"    -> stringToNumber(v.string)
      [] v.json = "boolean"   -> v.number
      [] v.json = "null"      -> Decimal(FALSE, <<>>, 0)
      [] v.json = "array"     -> stringToNumber(v.string)
      [] v.json = "undefined" -> NaN

(* The double 0.7 of the source text, 0.6999999999999999555910790149937...,  *)
(* given by the digits after the point of the decimal halfway between it and *)
(* the double before it.  A decimal below the halfway point rounds to a      *)
(* double below 0.7; one at the halfway point rounds to 0.7, whose           *)
(* significand is even, and so does every decimal from there to 0.7.         *)
SevenTenths ==
    <<6, 9, 9, 9, 9, 9, 9, 9, 9, 9, 9, 9, 9, 9, 9, 9, 0, 0,
      0, 7, 9, 9, 2, 7, 7, 8, 3, 7, 3, 5, 9, 1, 1, 3, 6, 1,
      8, 7, 3, 1, 4, 9, 8, 7, 1, 8, 2, 6, 1, 7, 1, 8, 7, 5>>

\* the digit at place i after the point, of a decimal below 1
fractionDigit(x, i) ==
    IF i <= 0 - x.exp THEN 0
    ELSE IF i + x.exp <= Len(x.digits) THEN x.digits[i + x.exp]
    ELSE 0

\* the double nearest to the decimal x is less than the double y, y given as
\* SevenTenths is; x is read once, as d
roundsBelow(x, y) ==
    \E d \in {x} :
        CASE d.kind = "NaN"      -> FALSE
          [] d.kind = "Infinity" -> d.neg
          [] d.kind = "finite"   ->
                \/ d.neg
                \/ d.digits = <<>>
                \/ /\ d.exp <= 0
                   /\ \E i \in 1..Len(y) :
                         /\ fractionDigit(d, i) < y[i]
                         /\ \A j \in 1..(i - 1) : fractionDigit(d, j) = y[j]

\* v < y for a number y
lessThan(v, y) == roundsBelow(toDouble(v), y)

\* questionType from the structure of the question
questionTypeOf(q) ==
    LET lower == toLowerCase(q.text)
        answer == IF q.correct_answer = Nil THEN Nil ELSE toLowerCase(q.correct_answer)
    IN  IF q.choices = "some" THEN "mcq"
        ELSE IF \/ includes(lower, <<"t","r","u","e"," ","o","r"," ","f","a","l","s","e">>)
                \/ includes(lower, <<"t","/","f">>)
                \/ answer = <<"t","r","u","e">>
                \/ answer = <<"f","a","l","s","e">>
             THEN "true_false"
             ELSE "essay"

\* the result pushed for one question: from the parsed reply, or the fallback of
\* the catch block when the request or JSON.parse failed, or when the reply
\* is the JSON null, of which no key can be read
classifyLLM(q, reply) ==
    IF reply.failed
    THEN [bloom_level |-> "understanding",
          difficulty |-> "average",
          knowledge_dimension |-> "factual",
          question_type |-> IF q.choices # "none" THEN "mcq" ELSE "essay",
          confidence |-> JsonNumber(Decimal(FALSE, <<1>>, 0)),
          needs_review |-> TRUE]
    ELSE [bloom_level |-> reply.bloom_level,
          difficulty |-> reply.difficulty,
          knowledge_dimension |-> reply.knowledge_dimension,
          question_type |-> questionTypeOf(q),
          confidence |-> reply.confidence,
          needs_review |-> lessThan(reply.confidence, SevenTenths)]

serveLLM(q, reply) ==
    [status |-> 200, error |-> "", records |-> <<classifyLLM(q, reply)>>]

-----------------------------------------------------------------------------
(* supabase/functions/rubrics/index.ts, the semantic-similarity handler *)

\* the characters /\w/ matches
WordChars ==
    {LowerChars[i] : i \in 1..26} \cup {UpperChars[i] : i \in 1..26}
        \cup {"0","1","2","3","4","5","6","7","8","9","_"}

\* s.replace(/[^\w\s]/g, ' ')
replaceNonWord(s) ==
    [i \in 1..Len(s) |-> IF s[i] \in WordChars \cup Whitespace THEN s[i] ELSE " "]

\* the positions where a piece without whitespace starts
wordStarts(s) ==
    { i \in 1..Len(s) : s[i] \notin Whitespace /\ (i = 1 \/ s[i - 1] \in Whitespace) }

\* the last position of the piece that starts at i
wordEnd(s, i) ==
    CHOOSE j \in i..Len(s) :
        /\ \A k \in i..j : s[k] \notin Whitespace
        /\ (j = Len(s) \/ s[j + 1] \in Whitespace)

\* s.split(/\s+/): the pieces between maximal runs of whitespace, an empty piece
\* at either end when the string starts or ends with whitespace
split(s) ==
    LET starts == wordStarts(s)
        nth(k) == CHOOSE i \in starts : Cardinality({ j \in starts : j < i }) = k - 1
        pieces == [k \in 1..Cardinality(starts) |-> SubSeq(s, nth(k), wordEnd(s, nth(k)))]
        atStart == IF s[1] \in Whitespace THEN << <<>> >> ELSE <<>>
        atEnd == IF s[Len(s)] \in Whitespace THEN << <<>> >> ELSE <<>>
    IN  IF s = <<>> THEN << <<>> >> ELSE atStart \o pieces \o atEnd

\* function tokenize(text)
tokenize(text) ==
    SelectSeq(split(replaceNonWord(toLowerCase(text))), LAMBDA token : Len(token) > 2)

\* tokens.filter(t => t === token).length
countOf(tokens, token) == Cardinality({ i \in 1..Len(tokens) : tokens[i] = token })

\* reduce((sum, val) => sum + ..., 0) over the entries of a vector indexed by S
RECURSIVE SumOver(_, _)
SumOver(f, S) ==
    IF S = {} THEN 0
    ELSE LET x == CHOOSE x \in S : TRUE
         IN  f[x] + SumOver(f, S \ {x})

(* A double x in [0, 2) as three 27-bit limbs: x * 2^80 = a * 2^54 + b * 2^27 + c. *)
Sim(a, b, c) == [a |-> a, b |-> b, c |-> c]
SimZero == Sim(0, 0, 0)

\* dotProduct / (Math.sqrt(s1) * Math.sqrt(s2)) in binary64, as
\* <<dotProduct, s1, s2, a, b, c>>: 3 / (sqrt(3) * sqrt(3)) is 1.0000000000000002
\* and 2 / (sqrt(2) * sqrt(2)) is 0.9999999999999998
CosineTable ==
    {
      <<1, 1, 1, 67108864, 0, 0>>, <<1, 1, 2, 47453132, 109001676, 0>>, <<1, 1, 3, 38745320, 93336349, 0>>,
      <<1, 1, 4, 33554432, 0, 0>>, <<2, 1, 4, 67108864, 0, 0>>, <<1, 1, 5, 30011996, 48232172, 67108864>>,
      <<2, 1, 5, 60023992, 96464345, 0>>, <<1, 1, 6, 27397079, 398879, 67108864>>, <<2, 1, 6, 54794158, 797759, 0>>,
      <<1, 2, 1, 47453132, 109001676, 0>>, <<1, 2, 2, 33554431, 134217727, 0>>, <<2, 2, 2, 67108863, 134217726, 0>>,
      <<1, 2, 3, 27397079, 398878, 67108864>>, <<2, 2, 3, 54794158, 797757, 0>>, <<1, 2, 4, 23726566, 54500838, 0>>,
      <<2, 2, 4, 47453132, 109001676, 0>>, <<1, 2, 5, 21221686, 19145863, 67108864>>, <<2, 2, 5, 42443372, 38291727, 0>>,
      <<3, 2, 5, 63665058, 57437590, 0>>, <<1, 2, 6, 19372660, 46668174, 67108864>>, <<2, 2, 6, 38745320, 93336349, 0>>,
      <<3, 2, 6, 58117981, 5786795, 0>>, <<1, 3, 1, 38745320, 93336349, 0>>, <<1, 3, 2, 27397079, 398878, 67108864>>,
      <<2, 3, 2, 54794158, 797757, 0>>, <<1, 3, 3, 22369621, 44739243, 0>>, <<2, 3, 3, 44739242, 89478486, 0>>,
      <<3, 3, 3, 67108864, 2, 0>>, <<1, 3, 4, 19372660, 46668174, 67108864>>, <<2, 3, 4, 38745320, 93336349, 0>>,
      <<3, 3, 4, 58117981, 5786795, 0>>, <<1, 3, 5, 17327434, 23755629, 0>>, <<2, 3, 5, 34654868, 47511258, 0>>,
      <<3, 3, 5, 51982302, 71266888, 0>>, <<1, 3, 6, 15817710, 125812377, 100663296>>, <<2, 3, 6, 31635421, 117407027, 67108864>>,
      <<3, 3, 6, 47453132, 109001677, 0>>, <<4, 3, 6, 63270843, 100596327, 0>>, <<1, 4, 1, 33554432, 0, 0>>,
      <<2, 4, 1, 67108864, 0, 0>>, <<1, 4, 2, 23726566, 54500838, 0>>, <<2, 4, 2, 47453132, 109001676, 0>>,
      <<1, 4, 3, 19372660, 46668174, 67108864>>, <<2, 4, 3, 38745320, 93336349, 0>>, <<3, 4, 3, 58117981, 5786795, 0>>,
      <<1, 4, 4, 16777216, 0, 0>>, <<2, 4, 4, 33554432, 0, 0>>, <<3, 4, 4, 50331648, 0, 0>>,
      <<4, 4, 4, 67108864, 0, 0>>, <<1, 4, 5, 15005998, 24116086, 33554432>>, <<2, 4, 5, 30011996, 48232172, 67108864>>,
      <<3, 4, 5, 45017994, 72348259, 0>>, <<4, 4, 5, 60023992, 96464345, 0>>, <<1, 4, 6, 13698539, 67308303, 100663296>>,
      <<2, 4, 6, 27397079, 398879, 67108864>>, <<3, 4, 6, 41095618, 67707183, 0>>, <<4, 4, 6, 54794158, 797759, 0>>,
      <<1, 5, 1, 30011996, 48232172, 67108864>>, <<2, 5, 1, 60023992, 96464345, 0>>, <<1, 5, 2, 21221686, 19145863, 67108864>>,
      <<2, 5, 2, 42443372, 38291727, 0>>, <<3, 5, 2, 63665058, 57437590, 0>>, <<1, 5, 3, 17327434, 23755629, 0>>,
      <<2, 5, 3, 34654868, 47511258, 0>>, <<3, 5, 3, 51982302, 71266888, 0>>, <<1, 5, 4, 15005998, 24116086, 33554432>>,
      <<2, 5, 4, 30011996, 48232172, 67108864>>, <<3, 5, 4, 45017994, 72348259, 0>>, <<4, 5, 4, 60023992, 96464345, 0>>,
      <<1, 5, 5, 13421772, 107374182, 0>>, <<2, 5, 5, 26843545, 80530636, 0>>, <<3, 5, 5, 40265318, 53687090, 0>>,
      <<4, 5, 5, 53687091, 26843544, 0>>, <<5, 5, 5, 67108863, 134217726, 0>>, <<1, 5, 6, 12252346, 27798566, 0>>,
      <<2, 5, 6, 24504692, 55597132, 0>>, <<3, 5, 6, 36757038, 83395698, 0>>, <<4, 5, 6, 49009384, 111194264, 0>>,
      <<5, 5, 6, 61261731, 4775103, 0>>, <<1, 6, 1, 27397079, 398879, 67108864>>, <<2, 6, 1, 54794158, 797759, 0>>,
      <<1, 6, 2, 19372660, 46668174, 67108864>>, <<2, 6, 2, 38745320, 93336349, 0>>, <<3, 6, 2, 58117981, 5786795, 0>>,
      <<1, 6, 3, 15817710, 125812377, 100663296>>, <<2, 6, 3, 31635421, 117407027, 67108864>>, <<3, 6, 3, 47453132, 109001677, 0>>,
      <<4, 6, 3, 63270843, 100596327, 0>>, <<1, 6, 4, 13698539, 67308303, 100663296>>, <<2, 6, 4, 27397079, 398879, 67108864>>,
      <<3, 6, 4, 41095618, 67707183, 0>>, <<4, 6, 4, 54794158, 797759, 0>>, <<1, 6, 5, 12252346, 27798566, 0>>,
      <<2, 6, 5, 24504692, 55597132, 0>>, <<3, 6, 5, 36757038, 83395698, 0>>, <<4, 6, 5, 49009384, 111194264, 0>>,
      <<5, 6, 5, 61261731, 4775103, 0>>, <<1, 6, 6, 11184810, 89478485, 67108864>>, <<2, 6, 6, 22369621, 44739243, 0>>,
      <<3, 6, 6, 33554432, 1, 0>>, <<4, 6, 6, 44739242, 89478486, 0>>, <<5, 6, 6, 55924053, 44739244, 0>>,
      <<6, 6, 6, 67108864, 2, 0>> }

\* dotProduct / (magnitude1 * magnitude2)
FDivMagnitudes(dotProduct, s1, s2) ==
    IF dotProduct = 0 THEN SimZero
    ELSE LET r == CHOOSE r \in CosineTable :
                      r[1] = dotProduct /\ r[2] = s1 /\ r[3] = s2
         IN  Sim(r[4], r[5], r[6])

\* x >= y on doubles
SimGeq(x, y) ==
    \/ x.a > y.a
    \/ x.a = y.a /\ x.b > y.b
    \/ x.a = y.a /\ x.b = y.b /\ x.c >= y.c

\* function calculateCosineSimilarity(text1, text2)
calculateCosineSimilarity(text1, text2) ==
    LET tokens1 == tokenize(text1)
        tokens2 == tokenize(text2)
        allTokens == {tokens1[i] : i \in 1..Len(tokens1)}
                        \cup {tokens2[i] : i \in 1..Len(tokens2)}
        vector1 == [token \in allTokens |-> countOf(tokens1, token)]
        vector2 == [token \in allTokens |-> countOf(tokens2, token)]
        dotProduct == SumOver([token \in allTokens |-> vector1[token] * vector2[token]],
                              allTokens)
        s1 == SumOver([token \in allTokens |-> vector1[token] * vector1[token]], allTokens)
        s2 == SumOver([token \in allTokens |-> vector2[token] * vector2[token]], allTokens)
    IN  IF s1 = 0 \/ s2 = 0 THEN SimZero
        ELSE FDivMagnitudes(dotProduct, s1, s2)

\* the request carries no questionId (then questionId || '' is '')
NoId == [n |-> 0, uuid |-> FALSE]

\* the id of the n-th row of the questions table, a uuid
Id(n) == [n |-> n, uuid |-> TRUE]

\* a questionId that is not a uuid
BadId == [n |-> -1, uuid |-> FALSE]

\* the request carries no threshold
NoThreshold == Sim(-1, 0, 0)

\* SimilarityRequestSchema: questionText of 10 to 5000 characters, questionId a
\* uuid when given, threshold in [0, 1]
similaritySchemaAccepts(req) ==
    /\ Len(req.questionText) >= 10 /\ Len(req.questionText) <= 5000
    /\ req.questionId = NoId \/ req.questionId.uuid
    /\ \/ req.threshold = NoThreshold
       \/ SimGeq(req.threshold, SimZero) /\ SimGeq(Sim(67108864, 0, 0), req.threshold)

\* threshold: z.number()...default(0.7)
thresholdOf(req) ==
    IF req.threshold = NoThreshold THEN Sim(46976204, 107374182, 0) ELSE req.threshold

\* .from('questions').select(...).neq('id', questionId || '')
questionsExcept(rows, questionId) == SelectSeq(rows, LAMBDA q : q.id # questionId)

\* similarities.push({ questionId: q.id, similarity, question: q })
similarityEntry(q, similarity) == [questionId |-> q.id, similarity |-> similarity]

\* the row passed to .from('question_similarities').upsert
similarityRow(questionId, q, similarity) ==
    [question1_id |-> questionId,
     question2_id |-> q.id,
     similarity_score |-> similarity,
     algorithm_used |-> "cosine"]

\* sortBySimilarity with the comparator a.similarity - b.similarity
RECURSIVE sortBySimilarityAscending(_)
sortBySimilarityAscending(entries) ==
    IF entries = <<>> THEN <<>>
    ELSE LET rest == sortBySimilarityAscending(Tail(entries))
             e    == Head(entries)
             before == SelectSeq(rest, LAMBDA x : ~SimGeq(x.similarity, e.similarity))
             after  == SelectSeq(rest, LAMBDA x : SimGeq(x.similarity, e.similarity))
         IN  before \o <<e>> \o after

\* similarities.sort((a, b) => b.similarity - a.similarity): a stable sort,
\* entries of equal similarity keep their order
RECURSIVE sortBySimilarity(_)
sortBySimilarity(entries) ==
    IF entries = <<>> THEN <<>>
    ELSE LET rest == sortBySimilarity(Tail(entries))
             e    == Head(entries)
             before == SelectSeq(rest, LAMBDA x : ~SimGeq(e.similarity, x.similarity))
             after  == SelectSeq(rest, LAMBDA x : SimGeq(e.similarity, x.similarity))
         IN  before \o <<e>> \o after

\* similarities.slice(0, 10)
slice10(entries) == SubSeq(entries, 1, IF Len(entries) < 10 THEN Len(entries) ELSE 10)

\* no response yet
NoSimilar == [status |-> 0, error |-> "", similarities |-> <<>>, total |-> 0]

\* the handler up to the answer of the questions query: the response it
\* returns there, NoSimilar when it goes on to the loop
similarityRefusal(auth, req, err) ==
    IF auth = "missing"
    THEN [status |-> 401, error |-> "Missing authorization header",
          similarities |-> <<>>, total |-> 0]
    ELSE IF ~similaritySchemaAccepts(req)
    THEN [status |-> 400, error |-> "Invalid input", similarities |-> <<>>, total |-> 0]
    ELSE IF err
    THEN [status |-> 500, error |-> "query failed", similarities |-> <<>>, total |-> 0]
    ELSE NoSimilar

\* the response after the loop: the sorted top 10 and the number of matches
similarityResponse(similarities) ==
    [status |-> 200, error |-> "",
     similarities |-> slice10(sortBySimilarity(similarities)),
     total |-> Len(similarities)]

-----------------------------------------------------------------------------
(* Inputs *)

MaxReq     == 5   \* largest required count of a cell of a one-topic matrix
MaxReqPair == 2   \* largest required count of a cell of a two-topic matrix
MaxItems   == 3   \* largest number of rows in the questions table

\* topic rows of a TOS carry topic_name, or topic, or both
TopicNames ==
    { [topic_name |-> <<"a","b">>,  topic |-> Nil],
      [topic_name |-> Nil,          topic |-> <<" ","A","b","-","c">>],
      [topic_name |-> <<"d">>,      topic |-> <<"a","b">>] }

\* the levels for which the enumerated matrices carry a `${bloom}_items` key:
\* two in a one-topic matrix, one in a two-topic matrix
ActiveLevels == {S_remembering, S_creating}
PairLevels   == {S_remembering}

TopicRows(levels, maxReq) ==
    { [topic_name |-> n.topic_name, topic |-> n.topic, items |-> it] :
        n \in TopicNames, it \in [levels -> 0..maxReq] }

NullMatrix == [isNull |-> TRUE, hasTopics |-> FALSE, topics |-> <<>>]
NoTopicsMatrix == [isNull |-> FALSE, hasTopics |-> FALSE, topics |-> <<>>]
MatrixOf(topics) == [isNull |-> FALSE, hasTopics |-> TRUE, topics |-> topics]

\* a topic that requires questions at every one of the six levels
FullTopic ==
    [topic_name |-> <<"a","b">>, topic |-> Nil,
     items |-> [b \in {bloomLevels[i] : i \in 1..Len(bloomLevels)} |-> 2]]

Matrices ==
    {NullMatrix, NoTopicsMatrix, MatrixOf(<<>>), MatrixOf(<<FullTopic>>)}
    \cup { MatrixOf(<<r>>) : r \in TopicRows(ActiveLevels, MaxReq) }
    \cup { MatrixOf(p) : p \in { q \in TopicRows(PairLevels, MaxReqPair)
                                         \X TopicRows(PairLevels, MaxReqPair) :
                                    q[1].topic_name # q[2].topic_name } }

QuestionTopics == { <<"A","B">>, <<"a","b","_","_","C"," ">> }
QuestionLevels == { <<"R","e","m","e","m","b","e","r","i","n","g">>, S_creating }

\* the kinds of row of the questions table (columns topic, bloom_level, deleted)
QuestionKinds ==
    << [topic |-> <<"A","B">>, bloom_level |-> S_creating, deleted |-> FALSE],
       [topic |-> <<"A","B">>,
        bloom_level |-> <<"R","e","m","e","m","b","e","r","i","n","g">>, deleted |-> FALSE],
       [topic |-> <<"A","B">>,
        bloom_level |-> <<"R","e","m","e","m","b","e","r","i","n","g">>, deleted |-> TRUE],
       [topic |-> <<"a","b","_","_","C"," ">>, bloom_level |-> S_creating, deleted |-> FALSE],
       [topic |-> <<"a","b","_","_","C"," ">>, bloom_level |-> S_creating, deleted |-> TRUE],
       [topic |-> <<"a","b","_","_","C"," ">>,
        bloom_level |-> <<"R","e","m","e","m","b","e","r","i","n","g">>, deleted |-> FALSE] >>

\* the tables of at most MaxItems rows; the analysis only filters and counts,
\* so each multiset of rows is listed once, in the order of QuestionKinds
Tables ==
    LET Idx == UNION { [1..n -> 1..Len(QuestionKinds)] : n \in 0..MaxItems }
        Sorted == { f \in Idx : \A i \in 1..(Len(f) - 1) : f[i] <= f[i + 1] }
    IN  { [i \in 1..Len(f) |-> QuestionKinds[f[i]]] : f \in Sorted }

NoAnalysis == [threw |-> FALSE, overallStatus |-> "none"]

MaxWords     == 2   \* most pool words at the head of a question text
MaxPadBlocks == 4   \* most blocks of filler words after them
PadStep      == 8   \* filler words in a block

\* words and phrases the question texts are built from
WordPool ==
    { <<"D","e","f","i","n","e">>,
      <<"e","x","p","l","a","i","n">>,
      <<"r","e","f","l","e","c","t">>,
      <<"c","r","e","a","t","e">>,
      <<"u","s","e","f","u","l">>,
      <<"l","i","s","t",":">>,
      <<"w","h","a","t"," ","i","s">>,
      <<"w","h","i","c","h"," ","o","f"," ","t","h","e"," ","f","o","l","l","o","w","i","n","g">> }

\* words with a difficulty keyword or complexity punctuation, and two cue verbs
DifficultyPool ==
    { <<"D","e","f","i","n","e">>,
      <<"c","r","e","a","t","e">>,
      <<"s","i","m","p","l","e">>,
      <<"c","o","m","p","l","e","x">>,
      <<"(","a",")",",","(","b",")">> }

RECURSIVE Join(_)
Join(ws) ==
    IF ws = <<>> THEN <<>>
    ELSE IF Len(ws) = 1 THEN ws[1]
    ELSE ws[1] \o <<" ">> \o Join(Tail(ws))

\* n filler words, each preceded by a space
RECURSIVE Pad(_)
Pad(n) == IF n = 0 THEN <<>> ELSE <<" ", "x">> \o Pad(n - 1)

\* a question that opens with a cue verb of both tables, in five words
ScenarioText ==
    <<"D","e","f","i","n","e"," ","t","h","e"," ","t","e","r","m"," ","r","e","q","u","i","r","e","m","e","n","t","s"," ","e","n","g","i","n","e","e","r","i","n","g",".">>

Texts ==
    { Join(ws) \o Pad(k * PadStep) :
        ws \in UNION { [1..n -> WordPool] : n \in 0..MaxWords }, k \in 0..MaxPadBlocks }
    \cup {ScenarioText}
    \cup { Join(ws) \o Pad(k * PadStep) :
              ws \in UNION { [1..n -> DifficultyPool] : n \in 0..MaxWords },
              k \in 0..MaxPadBlocks }

QuestionTypes == {"mcq", "true_false", "essay", "short_answer"}

\* topics an element may carry: of 1, 2, 200 and 201 characters
QuestionTopicTexts ==
    { <<"x">>, <<"x","y">>, [i \in 1..200 |-> "t"], [i \in 1..201 |-> "t"] }

\* payload elements of the rule-based handler
RuleQuestions ==
    { [text |-> t, type |-> ty, topic |-> Nil, choices |-> "none", correct_answer |-> Nil] :
        t \in Texts, ty \in QuestionTypes }
    \cup
    { [text |-> ScenarioText, type |-> ty, topic |-> tp, choices |-> "none",
       correct_answer |-> Nil] :
        ty \in {"mcq", "essay"}, tp \in QuestionTopicTexts }

\* questions of the OpenAI handler: no declared type, optional choices and answer
LLMQuestions ==
    { [text |-> t, type |-> "undeclared", topic |-> Nil, choices |-> c, correct_answer |-> a] :
        t \in { <<"T","r","u","e"," ","o","r"," ","f","a","l","s","e"," ","x">>,
                <<"D","e","f","i","n","e">>,
                <<"w","h","a","t"," ","i","s">> },
        c \in {"none", "empty", "some"},
        a \in {Nil, <<"T","r","u","e">>} }

\* the values a reply can hold as confidence.  Numbers: 0, 0.1, 0.5, 0.65,
\* 0.6999999999999999 (the double before 0.7), 0.69999999999999995 (read as
\* 0.7), 0.7, 0.9, 1, 2 and -0.1.  Values that are no number: null, "",
\* "0.5", "0.65", ".5", "5e-1", "-1", "0x0", " 0.9 ", "high", false, true,
\* [], [0.5], and no confidence at all
LLMConfidences ==
    { JsonNumber(Decimal(FALSE, ds, 0)) :
        ds \in { <<>>, <<1>>, <<5>>, <<6,5>>, <<7>>, <<9>>,
                 <<6,9,9,9,9,9,9,9,9,9,9,9,9,9,9,9>>,
                 <<6,9,9,9,9,9,9,9,9,9,9,9,9,9,9,9,9,5>> } }
    \cup { JsonNumber(Decimal(FALSE, <<1>>, 1)), JsonNumber(Decimal(FALSE, <<2>>, 1)),
           JsonNumber(Decimal(TRUE, <<1>>, 0)) }
    \cup { JsonString(s) :
            s \in { <<>>, <<"0",".","5">>, <<"0",".","6","5">>, <<".","5">>,
                    <<"5","e","-","1">>, <<"-","1">>, <<"0","x","0">>,
                    <<" ","0",".","9"," ">>, <<"h","i","g","h">> } }
    \cup { JsonNull, JsonBoolean(FALSE), JsonBoolean(TRUE),
           JsonArray(<<>>), JsonArray(<<"0",".","5">>), JsonUndefined }

\* what comes back from the completion request: a failure (HTTP error, reply
\* that is not JSON or is null), or a parsed classification
LLMReplies ==
    { [failed |-> TRUE, bloom_level |-> "", difficulty |-> "",
       knowledge_dimension |-> "", confidence |-> JsonUndefined] }
    \cup { [failed |-> FALSE, bloom_level |-> "applying", difficulty |-> "easy",
            knowledge_dimension |-> kd, confidence |-> c] :
            kd \in {"factual", "procedural"}, c \in LLMConfidences }

NoQuestion == [text |-> <<>>, type |-> "none", topic |-> Nil, choices |-> "none",
               correct_answer |-> Nil]
NoGuess    == [bloom_level |-> "none", knowledge_dimension |-> "none", confidence |-> NaN]
NoResponse == [status |-> 0, error |-> "", records |-> <<>>]

MaxBlock  == 2   \* longest pattern of texts a questions table repeats
MaxCopies == 6   \* most repetitions of the pattern

\* question_text of the rows of the questions table
CorpusTexts ==
    { <<"a","l","p","h","a"," ","b","e","t","a"," ","g","a","m","m","a">>,
      <<"A","l","p","h","a",","," ","b","e","t","a","!">>,
      <<"a","l","p","h","a"," ","d","e","l","t","a">>,
      <<"a","n"," ","o","x">> }

\* the questions table: a pattern of texts repeated, the n-th row having id Id(n)
Corpora ==
    { [i \in 1..(Len(block) * k) |->
          [id |-> Id(i), question_text |-> block[((i - 1) % Len(block)) + 1]]] :
        block \in UNION { [1..n -> CorpusTexts] : n \in 1..MaxBlock }, k \in 0..MaxCopies }

\* request bodies: a text with three tokens, one with none, one too short for the
\* schema; no id, the id of the first row, an id that is no uuid; no threshold,
\* 0, 1, and 1.5 which the schema refuses
SimilarityRequests ==
    { [questionText |-> t, questionId |-> id, threshold |-> th] :
        t \in { <<"a","l","p","h","a"," ","b","e","t","a"," ","g","a","m","m","a">>,
                <<"a","n"," ","o","x"," ","i","s"," ","a","t"," ","i","t">>,
                <<"a","l","p","h","a">> },
        id \in {NoId, Id(1), BadId},
        th \in {NoThreshold, SimZero, Sim(67108864, 0, 0), Sim(100663296, 0, 0)} }

NoRequest == [questionText |-> <<>>, questionId |-> NoId, threshold |-> NoThreshold]

MaxFaultyUpserts == 2   \* the upserts of one request after this many answer without an error

\* the handler is not inside its loop
NoSearch == [questions |-> <<>>, i |-> 0, similarities |-> <<>>, upserts |-> 0]


-----------------------------------------------------------------------------
(* The fingerprint vector of classify-questions.  A 32-bit integer is kept  *)
(* as two 16-bit limbs of its two's complement pattern, hi * 2^16 + lo, and *)
(* the double returned by Math.abs as a sign and the limbs of its magnitude *)
(* (2^31 has no 32-bit form).                                               *)

Limb == 65536

\* String.prototype.charCodeAt, for the characters the model uses
OtherChars == <<"\t", "\n", " ", "!", "(", ")", ",", "-", ".", "1", ":", ";", "?">>
OtherCodes == <<9, 10, 32, 33, 40, 41, 44, 45, 46, 49, 58, 59, 63>>

charCodeAt(c) ==
    IF \E i \in 1..26 : LowerChars[i] = c
    THEN 96 + (CHOOSE i \in 1..26 : LowerChars[i] = c)
    ELSE IF \E i \in 1..26 : UpperChars[i] = c
    THEN 64 + (CHOOSE i \in 1..26 : UpperChars[i] = c)
    ELSE OtherCodes[CHOOSE i \in 1..Len(OtherChars) : OtherChars[i] = c]

Int32Zero == [hi |-> 0, lo |-> 0]

\* hash << 5
shiftLeft5(h) ==
    [hi |-> (h.hi * 32 + (h.lo * 32) \div Limb) % Limb,
     lo |-> (h.lo * 32) % Limb]

\* hash = ((hash << 5) - hash) + char; hash = hash & hash: the sum is exact
\* as a double, and & converts it to a 32-bit integer
hashStep(hash, char) ==
    LET shifted == shiftLeft5(hash)
        lo0 == shifted.lo - hash.lo + char
    IN  [hi |-> (shifted.hi - hash.hi + lo0 \div Limb) % Limb,
         lo |-> lo0 % Limb]

\* the 32-bit integers, as limbs
Int32 == [hi : 0..(Limb - 1), lo : 0..(Limb - 1)]

\* for (let i = 0; i < str.length; i++): hash is a 32-bit integer after
\* every turn of the loop
RECURSIVE hashLoop(_, _, _)
hashLoop(str, i, hash) ==
    IF i > Len(str) THEN hash
    ELSE LET next == hashStep(hash, charCodeAt(str[i]))
         IN  CASE next \in Int32 -> hashLoop(str, i + 1, next)

IsNegative(h) == h.hi >= Limb \div 2

\* the limbs of 2^32 - h
Negated(h) ==
    [hi |-> (Limb - 1 - h.hi + (IF h.lo = 0 THEN 1 ELSE 0)) % (Limb + 1),
     lo |-> (Limb - h.lo) % Limb]

\* abs on 32-bit integers, where -2^31 has no positive counterpart
absInt32(h) ==
    IF ~IsNegative(h) THEN [neg |-> FALSE, hi |-> h.hi, lo |-> h.lo]
    ELSE IF h = [hi |-> Limb \div 2, lo |-> 0]
    THEN [neg |-> TRUE, hi |-> h.hi, lo |-> h.lo]
    ELSE [neg |-> FALSE, hi |-> Negated(h).hi, lo |-> Negated(h).lo]

\* Math.abs, on doubles
MathAbs(h) ==
    IF IsNegative(h)
    THEN [neg |-> FALSE, hi |-> Negated(h).hi, lo |-> Negated(h).lo]
    ELSE [neg |-> FALSE, hi |-> h.hi, lo |-> h.lo]

\* function simpleHash(str)
simpleHash(str) == MathAbs(hashLoop(str, 1, Int32Zero))

VectorSize == 50

\* hash % 50: the remainder has the sign of the dividend
bucketOf(hash) ==
    LET m == ((hash.hi % VectorSize) * (Limb % VectorSize) + hash.lo) % VectorSize
    IN  IF hash.neg THEN 0 - m ELSE m

\* words.forEach(word => vector[hash % 50] += 1); an index outside the
\* array adds a property and leaves the 50 components alone
RECURSIVE countLoop(_, _, _)
countLoop(words, i, counts) ==
    IF i > Len(words) THEN counts
    ELSE LET b == bucketOf(simpleHash(words[i]))
         IN  countLoop(words, i + 1,
                       IF b \in DOMAIN counts
                       THEN [counts EXCEPT ![b] = @ + 1]
                       ELSE counts)

\* new Array(50).fill(0) and the forEach loop
bucketCounts(text) ==
    countLoop(split(toLowerCase(text)), 1, [b \in 0..(VectorSize - 1) |-> 0])

\* function generateSemanticVector(text): component num / sqrt(sq), or num
\* itself where sq = 0
generateSemanticVector(text) ==
    LET counts == bucketCounts(text)
        hits == { b \in DOMAIN counts : counts[b] # 0 }
        sumsq == SumOver([b \in hits |-> counts[b] * counts[b]], hits)
    IN  [b \in DOMAIN counts |->
            [num |-> counts[b], sq |-> IF sumsq > 0 THEN sumsq ELSE 0]]

NoVector == <<>>

\* words of the hashed texts: one letter, mixed case, a negative wrapped
\* value ("define"), and the wrapped value -2^31
MaxTokens == 3

VectorWords ==
    { <<"a">>, <<"A","b">>, <<"D","e","f","i","n","e","?">>,
      <<"p","o","l","y","g","e","n","e","l","u","b","r","i","c","a","n","t","s">> }

VectorTexts ==
    { lead \o Join(ws) \o trail :
         lead \in {<<>>, <<" ">>},
         trail \in {<<>>, <<"\n">>},
         ws \in UNION { [1..n -> VectorWords] : n \in 0..MaxTokens } }

EarlierIdle ==
    /\ tosMatrix = NullMatrix
    /\ rawQuestions = <<>>
    /\ analysis = NoAnalysis
    /\ previous = NoAnalysis
    /\ touched = "none"
    /\ question = NoQuestion
    /\ guess = NoGuess
    /\ response = NoResponse
    /\ request = NoRequest
    /\ corpus = <<>>
    /\ stored = <<>>
    /\ similar = NoSimilar
    /\ search = NoSearch

VectorIdle == vectorText = <<>> /\ vector = NoVector


-----------------------------------------------------------------------------
(* The validation-workflow handler (unnamed/part_000).  The questions table *)
(* is a function from row id to row; confidences are in tenths.  A storage  *)
(* call that fails returns an error the handler never looks at.  The        *)
(* handler is suspended at every await, and the requests that arrived in    *)
(* the meantime run while it is: a request in flight is kept with the await *)
(* it waits at and the local variables it has set.                          *)

NullConfidence == 0 - 1

\* a column that holds null
NullColumn == <<"null">>

\* z.number().min(0).max(1)
unitInterval(x) == x >= 0 /\ x <= 10

\* the keys of classificationSchema
CLASSIFICATION_KEYS == {"bloom_level", "knowledge_dimension", "difficulty", "cognitive_level"}

\* z.string().min(2).max(100).optional(), for every key of the schema the
\* object carries; a key the schema does not name is not looked at
classificationSchemaAccepts(c) ==
    \A f \in DOMAIN c \cap CLASSIFICATION_KEYS : Len(c[f]) >= 2 /\ Len(c[f]) <= 100

\* the object classificationSchema.parse returns: the keys the schema does
\* not name are left out
classificationParsed(c) == [f \in DOMAIN c \cap CLASSIFICATION_KEYS |-> c[f]]

\* notes: z.string().max(1000).optional()
notesAccepted(notes) == notes = Nil \/ Len(notes) <= 1000

\* autoApproveThreshold: z.number().min(0).max(1).default(0.9)
autoApproveThresholdOf(body) ==
    IF "autoApproveThreshold" \in DOMAIN body THEN body.autoApproveThreshold ELSE 9

\* requestSchema.parse(rawInput) succeeds
reviewSchemaAccepts(body) ==
    CASE body.action = "validate" ->
            /\ body.questionId.uuid
            /\ classificationSchemaAccepts(body.classification)
            /\ unitInterval(body.confidence)
            /\ notesAccepted(body.notes)
      [] body.action = "reject" ->
            /\ body.questionId.uuid
            /\ notesAccepted(body.notes)
      [] body.action = "batch_validate" ->
            /\ \A i \in 1..Len(body.questionIds) : body.questionIds[i].uuid
            /\ Len(body.questionIds) >= 1
            /\ Len(body.questionIds) <= 100
            /\ unitInterval(autoApproveThresholdOf(body))
      [] OTHER -> FALSE

\* q.classification_confidence >= autoApproveThreshold; null compares as 0
confidenceGeq(c, th) == IF c = NullConfidence THEN 0 >= th ELSE c >= th

\* .update(fields).eq('id', id): no row, or a failed call, changes nothing
updateRow(rows, id, fields, ok) ==
    IF ok /\ id \in DOMAIN rows
    THEN [rows EXCEPT ![id] = [f \in DOMAIN @ |-> IF f \in DOMAIN fields THEN fields[f] ELSE @[f]]]
    ELSE rows

ZeroResults == [validated |-> 0, needsReview |-> 0, rejected |-> 0]

\* data of a select that found no row or failed
NoClassification ==
    [bloom_level |-> NullColumn, knowledge_dimension |-> NullColumn, difficulty |-> NullColumn]

NoReviewResponse == [status |-> 0, message |-> "", validated |-> 0, needsReview |-> 0]

\* the handler from its first line to await getUser(token): a request with
\* an Authorization header, its local variables question and results, and i,
\* the position of qId in questionIds
suspended(auth, body) ==
    [auth |-> auth, body |-> body, at |-> "getUser", question |-> NoClassification,
     i |-> 1, results |-> ZeroResults]

\* the handler goes on to its next await
proceed(rows, log, flight, at) ==
    [rows |-> rows, log |-> log, flight |-> [flight EXCEPT !.at = at],
     response |-> NoReviewResponse]

\* return new Response(...)
respond(rows, log, flight, status, message) ==
    [rows |-> rows, log |-> log, flight |-> [flight EXCEPT !.at = "done"],
     response |-> [status |-> status, message |-> message,
                   validated |-> flight.results.validated,
                   needsReview |-> flight.results.needsReview]]

\* after await supabaseClient.auth.getUser(token)
afterGetUser(rows, log, flight) ==
    IF flight.auth = "rejected" THEN respond(rows, log, flight, 401, "Unauthorized")
    ELSE proceed(rows, log, flight, "json")

\* after await req.json(): requestSchema.parse and the switch; the handler
\* goes on with the parsed input
afterJson(rows, log, flight) ==
    IF ~reviewSchemaAccepts(flight.body) THEN respond(rows, log, flight, 400, "Invalid input")
    ELSE CASE flight.body.action = "validate" ->
                proceed(rows, log,
                        [flight EXCEPT !.body.classification = classificationParsed(@)],
                        "select")
           [] flight.body.action = "reject" -> proceed(rows, log, flight, "rejectUpdate")
           [] flight.body.action = "batch_validate" -> proceed(rows, log, flight, "batchSelect")

\* case 'validate', after the select of the original classification
afterSelect(rows, log, flight, ok) ==
    LET id == flight.body.questionId.n
    IN  proceed(rows, log,
                [flight EXCEPT !.question =
                    IF ok /\ id \in DOMAIN rows
                    THEN [bloom_level |-> rows[id].bloom_level,
                          knowledge_dimension |-> rows[id].knowledge_dimension,
                          difficulty |-> rows[id].difficulty]
                    ELSE NoClassification],
                "insert")

\* case 'validate', after the insert into classification_validations
afterInsert(rows, log, flight, ok) ==
    LET entry == [question_id |-> flight.body.questionId,
                  original_classification |-> flight.question,
                  validated_classification |-> flight.body.classification,
                  validator_id |-> flight.auth,
                  validation_confidence |-> flight.body.confidence,
                  notes |-> flight.body.notes,
                  validation_type |-> "manual"]
    IN  proceed(rows, IF ok THEN Append(log, entry) ELSE log, flight, "update")

\* case 'validate', after the update of the question
afterUpdate(rows, log, flight, ok) ==
    LET body == flight.body
        fields == [f \in DOMAIN body.classification \cup
                         {"validation_status", "validated_by",
                          "classification_confidence", "needs_review"} |->
                      CASE f = "validation_status" -> "validated"
                        [] f = "validated_by" -> flight.auth
                        [] f = "classification_confidence" -> body.confidence
                        [] f = "needs_review" -> FALSE
                        [] OTHER -> body.classification[f]]
    IN  respond(updateRow(rows, body.questionId.n, fields, ok), log, flight,
                200, "Classification validated")

\* case 'reject', after the update of the question
afterRejectUpdate(rows, log, flight, ok) ==
    respond(updateRow(rows, flight.body.questionId.n,
                      [validation_status |-> "rejected",
                       validated_by |-> flight.auth,
                       needs_review |-> TRUE,
                       metadata |-> [rejection_notes |-> flight.body.notes]],
                      ok),
            log, flight, 200, "Classification rejected")

\* for (const qId of questionIds): the next id, or the response after the last
nextQuestionId(rows, log, flight) ==
    IF flight.i < Len(flight.body.questionIds)
    THEN proceed(rows, log, [flight EXCEPT !.i = @ + 1], "batchSelect")
    ELSE respond(rows, log, flight, 200, "")

\* case 'batch_validate', after the select of classification_confidence
afterBatchSelect(rows, log, flight, ok) ==
    LET id == flight.body.questionIds[flight.i].n
    IN  IF /\ ok
           /\ id \in DOMAIN rows
           /\ confidenceGeq(rows[id].classification_confidence,
                            autoApproveThresholdOf(flight.body))
        THEN proceed(rows, log, flight, "batchUpdate")
        ELSE nextQuestionId(rows, log, [flight EXCEPT !.results.needsReview = @ + 1])

\* case 'batch_validate', after the update of the question
afterBatchUpdate(rows, log, flight, ok) ==
    nextQuestionId(updateRow(rows, flight.body.questionIds[flight.i].n,
                             [validation_status |-> "validated", validated_by |-> flight.auth],
                             ok),
                   log, [flight EXCEPT !.results.validated = @ + 1])

S_factual == <<"f","a","c","t","u","a","l">>
S_easy    == <<"e","a","s","y">>
S_average == <<"a","v","e","r","a","g","e">>

\* rows as classify-questions leaves them: needs_review = confidence < 0.7
ReviewRowKinds ==
    { [bloom_level |-> S_remembering, knowledge_dimension |-> S_factual,
       difficulty |-> S_easy, cognitive_level |-> S_remembering,
       validation_status |-> "pending",
       validated_by |-> "null", classification_confidence |-> c,
       needs_review |-> (c < 7), metadata |-> NullColumn] : c \in {5, 9} }
    \cup
    { [bloom_level |-> S_remembering, knowledge_dimension |-> S_factual,
       difficulty |-> S_easy, cognitive_level |-> S_remembering,
       validation_status |-> "pending",
       validated_by |-> "null", classification_confidence |-> NullConfidence,
       needs_review |-> FALSE, metadata |-> NullColumn] }

MaxRows == 2
MaxCalls == 2

ReviewTables == UNION { [1..n -> ReviewRowKinds] : n \in 1..MaxRows }

\* the ids of the rows of a table of MaxRows rows, and the id of no row
ReviewIds == { Id(n) : n \in 1..(MaxRows + 1) }

ReviewNote == <<"o","f","f"," ","t","o","p","i","c">>

\* requests the schema accepts, one of them with a key the classification
\* schema does not name, and four it refuses: an id that is not a uuid, a
\* level of one character, notes of 1001 characters, no ids
ReviewBodies ==
    { [action |-> "validate", questionId |-> Id(1),
       classification |-> [bloom_level |-> S_applying], confidence |-> 5, notes |-> Nil],
      [action |-> "validate", questionId |-> Id(1),
       classification |-> [difficulty |-> S_average, metadata |-> <<"x">>],
       confidence |-> 5, notes |-> Nil],
      [action |-> "validate", questionId |-> Id(1),
       classification |-> [bloom_level |-> S_creating, difficulty |-> S_average],
       confidence |-> 9, notes |-> ReviewNote],
      [action |-> "validate", questionId |-> Id(MaxRows + 1),
       classification |-> <<>>, confidence |-> 9, notes |-> Nil],
      [action |-> "validate", questionId |-> BadId,
       classification |-> <<>>, confidence |-> 9, notes |-> Nil],
      [action |-> "validate", questionId |-> Id(1),
       classification |-> [bloom_level |-> <<"x">>], confidence |-> 9, notes |-> Nil],
      [action |-> "reject", questionId |-> Id(1), notes |-> Nil],
      [action |-> "reject", questionId |-> Id(MaxRows), notes |-> ReviewNote],
      [action |-> "reject", questionId |-> Id(1), notes |-> [i \in 1..1001 |-> "n"]],
      [action |-> "batch_validate", questionIds |-> <<Id(1), Id(1)>>,
       autoApproveThreshold |-> 9],
      [action |-> "batch_validate", questionIds |-> <<Id(1), Id(MaxRows)>>],
      [action |-> "batch_validate", questionIds |-> <<Id(MaxRows + 1)>>,
       autoApproveThreshold |-> 0],
      [action |-> "batch_validate", questionIds |-> <<>>, autoApproveThreshold |-> 5] }

ReviewIdle ==
    /\ questionRows = <<>>
    /\ validations = <<>>
    /\ reviewFlights = <<>>
    /\ reviewResponse = NoReviewResponse
    /\ reviewCalls = 0


-----------------------------------------------------------------------------
(* The rubrics endpoint (supabase/functions/rubrics).  The rubrics table is *)
(* a function from id to row, rubric_criteria a sequence of rows.  A path   *)
(* that ends in 'rubrics' carries no id.  The handler is suspended at every *)
(* await while other requests run: a request is kept with the await it      *)
(* waits at, the id of the rubric it has inserted, and, once answered, its  *)
(* response; changed records that one of its calls has altered a table.     *)

NoRubricId == 0
NoOrderIndex == 0 - 1

\* RubricCriterionSchema
criterionSchemaAccepts(c) ==
    /\ Len(c.name) >= 1 /\ Len(c.name) <= 200
    /\ c.weight >= 0 /\ c.weight <= 10
    /\ c.max_score >= 0 /\ c.max_score <= 1000
    /\ c.order_index = NoOrderIndex \/ c.order_index >= 0

\* CreateRubricSchema.safeParse(rawBody).success
createRubricSchemaAccepts(body) ==
    /\ Len(body.title) >= 1 /\ Len(body.title) <= 200
    /\ Len(body.description) <= 5000
    /\ Len(body.criteria) >= 1 /\ Len(body.criteria) <= 50
    /\ \A i \in 1..Len(body.criteria) : criterionSchemaAccepts(body.criteria[i])

\* body.criteria.map((criterion, index) => ({ rubric_id, ... }))
criteriaDataOf(body, id) ==
    [i \in 1..Len(body.criteria) |->
        [rubric_id |-> id,
         name |-> body.criteria[i].name,
         weight |-> body.criteria[i].weight,
         max_score |-> body.criteria[i].max_score,
         order_index |-> IF body.criteria[i].order_index = NoOrderIndex
                         THEN i - 1
                         ELSE body.criteria[i].order_index]]

RECURSIVE criteriaExcept(_, _)
criteriaExcept(rows, id) ==
    IF rows = <<>> THEN <<>>
    ELSE IF Head(rows).rubric_id = id THEN criteriaExcept(Tail(rows), id)
    ELSE <<Head(rows)>> \o criteriaExcept(Tail(rows), id)

\* the id the table gives to an inserted rubric
newRubricId(rubrics) ==
    IF DOMAIN rubrics = {} THEN 1
    ELSE 1 + (CHOOSE m \in DOMAIN rubrics : \A k \in DOMAIN rubrics : k <= m)

NoRubricResponse == [status |-> 0, error |-> ""]

\* a request at an await
awaiting(req, at) ==
    [request |-> req, at |-> at, rubric |-> NoRubricId, changed |-> FALSE,
     response |-> NoRubricResponse]

\* return new Response(...)
answered(flight, status, error) ==
    [flight EXCEPT !.at = "done", !.response = [status |-> status, error |-> error]]

\* the Deno.serve handler from its first line to its first await
rubricsHandler(req) ==
    IF req.method = "OPTIONS" THEN answered(awaiting(req, "none"), 200, "")
    ELSE CASE req.method = "GET" -> awaiting(req, "select")
           [] req.method = "POST" -> awaiting(req, "json")
           [] req.method = "PUT" ->
                IF req.rubricId = NoRubricId
                THEN answered(awaiting(req, "none"), 400, "Rubric ID required for update")
                ELSE awaiting(req, "json")
           [] req.method = "DELETE" ->
                IF req.rubricId = NoRubricId
                THEN answered(awaiting(req, "none"), 400, "Rubric ID required for deletion")
                ELSE awaiting(req, "delete")
           [] OTHER -> answered(awaiting(req, "none"), 405, "Method not allowed")

\* the tables and the request after one more piece of the handler has run
rubricStep(rubrics, criteria, flight) ==
    [rubrics |-> rubrics, criteria |-> criteria, flight |-> flight]

\* case 'GET', after the select from rubrics
afterSelectRubric(rubrics, criteria, flight, failed) ==
    IF flight.request.rubricId # NoRubricId
    THEN IF failed \/ flight.request.rubricId \notin DOMAIN rubrics
         THEN rubricStep(rubrics, criteria, answered(flight, 404, "rubric"))
         ELSE rubricStep(rubrics, criteria, [flight EXCEPT !.at = "selectCriteria"])
    ELSE IF failed THEN rubricStep(rubrics, criteria, answered(flight, 500, "rubrics"))
         ELSE rubricStep(rubrics, criteria, answered(flight, 200, ""))

\* case 'GET', after the select from rubric_criteria
afterSelectCriteria(rubrics, criteria, flight, failed) ==
    IF failed THEN rubricStep(rubrics, criteria, answered(flight, 500, "criteria"))
    ELSE rubricStep(rubrics, criteria, answered(flight, 200, ""))

\* case 'POST' and case 'PUT', after await req.json()
afterRubricJson(rubrics, criteria, flight) ==
    IF ~createRubricSchemaAccepts(flight.request.body)
    THEN rubricStep(rubrics, criteria, answered(flight, 400, "Invalid input"))
    ELSE IF flight.request.method = "POST"
    THEN rubricStep(rubrics, criteria, [flight EXCEPT !.at = "getUser"])
    ELSE rubricStep(rubrics, criteria, [flight EXCEPT !.at = "update"])

\* case 'POST', after await supabase.auth.getUser()
afterRubricGetUser(rubrics, criteria, flight) ==
    IF flight.request.user = "none"
    THEN rubricStep(rubrics, criteria, answered(flight, 401, "User not authenticated"))
    ELSE rubricStep(rubrics, criteria, [flight EXCEPT !.at = "insertRubric"])

\* case 'POST', after the insert into rubrics
afterInsertRubric(rubrics, criteria, flight, failed) ==
    IF failed THEN rubricStep(rubrics, criteria, answered(flight, 500, "rubric"))
    ELSE LET id == newRubricId(rubrics)
         IN  rubricStep([k \in DOMAIN rubrics \cup {id} |->
                            IF k = id
                            THEN [title |-> flight.request.body.title,
                                  description |-> flight.request.body.description,
                                  created_by |-> flight.request.user]
                            ELSE rubrics[k]],
                        criteria,
                        [flight EXCEPT !.at = "insertCriteria", !.rubric = id,
                                       !.changed = TRUE])

\* case 'POST' and case 'PUT', after the insert into rubric_criteria
afterInsertCriteria(rubrics, criteria, flight, failed) ==
    LET id == IF flight.request.method = "POST" THEN flight.rubric
              ELSE flight.request.rubricId
    IN  IF failed THEN rubricStep(rubrics, criteria, answered(flight, 500, "criteria"))
        ELSE rubricStep(rubrics, criteria \o criteriaDataOf(flight.request.body, id),
                        answered([flight EXCEPT !.changed =
                                     @ \/ Len(flight.request.body.criteria) > 0],
                                 IF flight.request.method = "POST" THEN 201 ELSE 200, ""))

\* case 'PUT', after the update of rubrics
afterUpdateRubric(rubrics, criteria, flight, failed) ==
    LET id == flight.request.rubricId
    IN  IF failed \/ id \notin DOMAIN rubrics
        THEN rubricStep(rubrics, criteria, answered(flight, 500, "rubric"))
        ELSE LET updated == [rubrics EXCEPT ![id].title = flight.request.body.title,
                                            ![id].description = flight.request.body.description]
             IN  rubricStep(updated, criteria,
                            [flight EXCEPT !.at = "deleteCriteria",
                                           !.changed = @ \/ updated # rubrics])

\* case 'PUT', after the delete from rubric_criteria, whose error is not read
afterDeleteCriteria(rubrics, criteria, flight, failed) ==
    LET kept == IF failed THEN criteria
                ELSE criteriaExcept(criteria, flight.request.rubricId)
        after == [flight EXCEPT !.changed = @ \/ kept # criteria]
    IN  IF Len(flight.request.body.criteria) > 0
        THEN rubricStep(rubrics, kept, [after EXCEPT !.at = "insertCriteria"])
        ELSE rubricStep(rubrics, kept, answered(after, 200, ""))

\* case 'DELETE', after the delete from rubrics; whether the criteria go with
\* the rubric is the table's foreign key, not the handler
afterDeleteRubric(rubrics, criteria, flight, failed, cascade) ==
    IF failed THEN rubricStep(rubrics, criteria, answered(flight, 500, "rubric"))
    ELSE LET id == flight.request.rubricId
             kept == IF cascade THEN criteriaExcept(criteria, id) ELSE criteria
         IN  rubricStep([k \in DOMAIN rubrics \ {id} |-> rubrics[k]], kept,
                        answered([flight EXCEPT !.changed =
                                     @ \/ id \in DOMAIN rubrics \/ kept # criteria],
                                 200, ""))

MaxRubricCalls == 2

RubricCriterion(name, order) ==
    [name |-> name, weight |-> 1, max_score |-> 10, order_index |-> order]

\* two bodies the schema accepts, and three it refuses: no title, no
\* criteria, a criterion without a name
RubricBodies ==
    { [title |-> <<"T">>, description |-> <<>>,
       criteria |-> <<RubricCriterion(<<"c">>, NoOrderIndex)>>],
      [title |-> <<"U">>, description |-> <<>>,
       criteria |-> <<RubricCriterion(<<"c">>, 3)>>],
      [title |-> <<>>, description |-> <<>>,
       criteria |-> <<RubricCriterion(<<"c">>, NoOrderIndex)>>],
      [title |-> <<"T">>, description |-> <<>>, criteria |-> <<>>],
      [title |-> <<"T">>, description |-> <<>>,
       criteria |-> <<RubricCriterion(<<>>, NoOrderIndex)>>] }

NoRubricBody == [title |-> <<>>, description |-> <<>>, criteria |-> <<>>]

\* the Authorization header of a request and what getUser() answers for it
RubricCallers ==
    { [auth |-> "missing", user |-> "none"],
      [auth |-> "present", user |-> "none"],
      [auth |-> "present", user |-> "teacher"] }

\* the tables before the requests: empty, or one rubric with its criterion
RubricStores ==
    { [rubrics |-> <<>>, criteria |-> <<>>],
      [rubrics |-> <<[title |-> <<"T">>, description |-> <<>>, created_by |-> "teacher"]>>,
       criteria |-> <<[rubric_id |-> 1, name |-> <<"c">>, weight |-> 1,
                       max_score |-> 10, order_index |-> 0]>>] }

RubricIdle ==
    /\ rubricTable = <<>>
    /\ criteriaTable = <<>>
    /\ rubricFlights = <<>>
    /\ rubricResponse = NoRubricResponse
    /\ rubricCalls = 0

-----------------------------------------------------------------------------
(* The useAnalytics hook (unnamed/part_003).  A fetch is sent, answered by  *)
(* the database with the rows it holds at that moment (or with an error),   *)
(* and resolved when the awaiting code resumes.  created_at is kept as the  *)
(* age of the row in days.                                                  *)

\* reduce((acc, item) => { acc[key] = (acc[key] || 0) + 1; return acc }, {}):
\* the plain object the reduce returns
RECURSIVE countsBy(_, _)
countsBy(keys, acc) ==
    IF keys = <<>> THEN acc
    ELSE countsBy(Tail(keys), countInto(acc, Head(keys)))

\* creatorCounts[name] || 0
countFor(creatorCounts, name) == orZero(objectGet(creatorCounts, name))

(* Arithmetic on doubles (IEEE 754 binary64).  A positive double is kept as  *)
(* [m, e]: m the 53 bits of its significand, written as five digits in base  *)
(* 2^13 with the most significant first and equal to 1, and its value is     *)
(* m * 2^e.  The operands are counts of rows, far below 2^17, so that every  *)
(* intermediate product fits the integers of the model.                      *)

SIGNIFICAND == 53

\* the base of the digits, and the number of bits of one digit
DIGIT == 2^13
DIGIT_BITS == (SIGNIFICAND - 1) \div 4

\* the digits after the carries: every digit but the first brought below
\* DIGIT, what exceeds it added to the digit before
RECURSIVE carried(_)
carried(digits) ==
    IF Len(digits) <= 1 THEN digits
    ELSE LET n == Len(digits)
         IN  carried(SubSeq(digits, 1, n - 2) \o <<digits[n - 1] + (digits[n] \div DIGIT)>>)
             \o <<digits[n] % DIGIT>>

\* the number the digits write
RECURSIVE digitsValue(_)
digitsValue(digits) ==
    IF digits = <<>> THEN 0
    ELSE digitsValue(SubSeq(digits, 1, Len(digits) - 1)) * DIGIT + digits[Len(digits)]

\* the double nearest to m * 2^e plus a fraction of the last bit of m: guard
\* is the first bit of the fraction, sticky says that a later one is set;
\* ties go to the even significand
roundToEven(m, guard, sticky, e) ==
    LET n      == Len(m)
        raised == IF guard = 1 /\ (sticky \/ m[n] % 2 = 1)
                  THEN carried([m EXCEPT ![n] = @ + 1])
                  ELSE m
    IN  IF raised[1] > 1
        THEN [m |-> <<1>> \o [i \in 1..(n - 1) |-> 0], e |-> e + 1]
        ELSE [m |-> raised, e |-> e]

\* c, d and e with count / total = (c / d) * 2^e and 1 <= c / d < 2
RECURSIVE normalise(_, _, _)
normalise(c, d, e) ==
    IF c < d THEN normalise(2 * c, d, e - 1)
    ELSE IF c >= 2 * d THEN normalise(c, 2 * d, e + 1)
    ELSE [c |-> c, d |-> d, e |-> e]

\* long division: the first k digits of r / d after the point, r < d
RECURSIVE quotientDigits(_, _, _)
quotientDigits(r, d, k) ==
    IF k = 0 THEN <<>>
    ELSE <<(r * DIGIT) \div d>> \o quotientDigits((r * DIGIT) % d, d, k - 1)

\* the remainder the long division is left with after k digits
RECURSIVE remainderAfter(_, _, _)
remainderAfter(r, d, k) ==
    IF k = 0 THEN r ELSE remainderAfter((r * DIGIT) % d, d, k - 1)

\* count / total for two positive integers: 52 bits of the quotient after
\* the leading 1, the 53rd as guard, the rest of the division as sticky
divide(count, total) ==
    LET s    == normalise(count, total, 0)
        rest == remainderAfter(s.c - s.d, s.d, 4)
    IN  roundToEven(<<1>> \o quotientDigits(s.c - s.d, s.d, 4),
                    (2 * rest) \div s.d,
                    (2 * rest) % s.d # 0,
                    s.e - (SIGNIFICAND - 1))

\* x * 100: the product has 59 or 60 bits, of which the last 6 or 7 are
\* rounded away
times100(x) ==
    LET p     == carried([i \in 1..Len(x.m) |-> x.m[i] * 100])
        n     == Len(p)
        drop  == IF p[1] >= 128 THEN 7 ELSE 6
        kept  == [i \in 1..n |->
                     IF i = 1 THEN p[1] \div 2^drop
                     ELSE (p[i - 1] % 2^drop) * 2^(DIGIT_BITS - drop) + (p[i] \div 2^drop)]
    IN  roundToEven(kept,
                    (p[n] \div 2^(drop - 1)) % 2,
                    p[n] % 2^(drop - 1) # 0,
                    x.e + drop)

\* Math.round(x) for a double below 2^31: the integer part, and one more
\* when the first bit of the fraction is set
mathRound(x) ==
    LET n     == 0 - x.e
        whole == Len(x.m) - (n \div DIGIT_BITS)
        bits  == n % DIGIT_BITS
    IN  IF n > SIGNIFICAND THEN 0
        ELSE IF n = SIGNIFICAND THEN 1
        ELSE IF n <= 0 THEN digitsValue(x.m) * 2^(x.e)
        ELSE IF bits = 0
        THEN digitsValue(SubSeq(x.m, 1, whole))
             + ((x.m[whole + 1] \div 2^(DIGIT_BITS - 1)) % 2)
        ELSE digitsValue(SubSeq(x.m, 1, whole - 1)) * 2^(DIGIT_BITS - bits)
             + (x.m[whole] \div 2^bits)
             + ((x.m[whole] \div 2^(bits - 1)) % 2)

\* Math.round((count / totalQuestions) * 100) for integers
roundPercent(count, total) ==
    IF count = 0 THEN 0 ELSE mathRound(times100(divide(count, total)))

\* totalQuestions > 0 ? Math.round((count / totalQuestions) * 100) : 0, count
\* being the value the reduce left under the key
percentageOf(count, total) ==
    IF total > 0
    THEN LET x == toNumber(count)
         IN  IF x.type = "number" THEN Number(roundPercent(x.n, total)) ELSE NotANumber
    ELSE Number(0)

\* the ages of the rows of the last 14 days
RECURSIVE recentDays(_)
recentDays(rows) ==
    IF rows = <<>> THEN <<>>
    ELSE IF Head(rows).daysAgo <= 14
         THEN <<Head(rows).daysAgo>> \o recentDays(Tail(rows))
         ELSE recentDays(Tail(rows))

\* dateGroups and the { date, count } made of its Object.entries.  The keys
\* are dates written as month and day ("Oct 28"), none of them an array index
\* or a name of Object.prototype: one entry per day, in order of first
\* occurrence; a date is kept as the age of the row in days
RECURSIVE dateGroupsOf(_, _)
dateGroupsOf(days, acc) ==
    IF days = <<>> THEN acc
    ELSE LET k == Head(days)
         IN  IF \E i \in 1..Len(acc) : acc[i].date = k
             THEN dateGroupsOf(Tail(days),
                               [i \in 1..Len(acc) |->
                                   IF acc[i].date = k
                                   THEN [date |-> k, count |-> acc[i].count + 1]
                                   ELSE acc[i]])
             ELSE dateGroupsOf(Tail(days), Append(acc, [date |-> k, count |-> 1]))

S_Unknown == <<"U","n","k","n","o","w","n">>
AI_GENERATED == <<"A","I"," ","G","e","n","e","r","a","t","e","d">>
TEACHER_CREATED == <<"T","e","a","c","h","e","r"," ","C","r","e","a","t","e","d">>

\* item.bloom_level || 'Unknown'
bloomKey(item) ==
    IF item.bloom_level = NullColumn \/ item.bloom_level = <<>> THEN S_Unknown
    ELSE item.bloom_level

\* item.created_by === 'ai' ? 'AI Generated' : 'Teacher Created'
creatorKey(item) == IF item.created_by = "ai" THEN AI_GENERATED ELSE TEACHER_CREATED

\* the state set by setAnalytics({...}) for the rows of one answer
analyticsOf(rows) ==
    LET bloomCounts == countsBy([i \in 1..Len(rows) |-> bloomKey(rows[i])], <<>>)
        creatorCounts == countsBy([i \in 1..Len(rows) |-> creatorKey(rows[i])], <<>>)
        bloomEntries == objectEntries(bloomCounts)
    IN  [bloomDistribution |->
            [i \in 1..Len(bloomEntries) |->
                [name |-> bloomEntries[i].name,
                 value |-> bloomEntries[i].value,
                 percentage |-> percentageOf(bloomEntries[i].value, Len(rows))]],
         creatorStats |-> objectEntries(creatorCounts),
         timeSeriesData |-> dateGroupsOf(recentDays(rows), <<>>),
         totalQuestions |-> Len(rows),
         aiQuestions |-> countFor(creatorCounts, AI_GENERATED),
         teacherQuestions |-> countFor(creatorCounts, TEACHER_CREATED),
         loading |-> FALSE]

\* useState initial value
InitialAnalytics ==
    [bloomDistribution |-> <<>>, creatorStats |-> <<>>, timeSeriesData |-> <<>>,
     totalQuestions |-> 0, aiQuestions |-> Number(0), teacherQuestions |-> Number(0),
     loading |-> TRUE]

\* the continuation of fetchAnalytics after the await
resolveFetch(prev, answer) ==
    IF answer.error THEN [prev EXCEPT !.loading = FALSE]
    ELSE analyticsOf(answer.rows)

MaxChanges == 2

AnalyticsRowKinds ==
    { [bloom_level |-> S_remembering, created_by |-> "ai", daysAgo |-> 1],
      [bloom_level |-> NullColumn, created_by |-> "teacher", daysAgo |-> 20],
      [bloom_level |-> <<>>, created_by |-> "", daysAgo |-> 14],
      [bloom_level |-> <<"c","o","n","s","t","r","u","c","t","o","r">>, created_by |-> "teacher",
       daysAgo |-> 1],
      [bloom_level |-> <<"9">>, created_by |-> "ai", daysAgo |-> 2] }

AnalyticsTables == UNION { [1..n -> AnalyticsRowKinds] : n \in 0..1 }

AnalyticsIdle ==
    /\ analyticsRows = <<>>
    /\ changeEvents = 0
    /\ changes = 0
    /\ fetches = <<>>
    /\ analytics = InitialAnalytics

-----------------------------------------------------------------------------
(* MultiVersionTestGenerator: shuffling the choices of a question.  An      *)
(* object of choices is the sequence of its entries [key, value] in         *)
(* insertion order; positions count from 1, and rand[i] is the position     *)
(* Math.floor(Math.random() * (i + 1)) selects for position i.              *)

NoChoices == <<"null">>

swap(s, i, j) == [s EXCEPT ![i] = s[j], ![j] = s[i]]

RECURSIVE shuffleLoop(_, _, _)
shuffleLoop(shuffled, i, rand) ==
    IF i <= 1 THEN shuffled
    ELSE shuffleLoop(swap(shuffled, i, rand[i]), i - 1, rand)

\* const shuffleArray = (array) => ...
shuffleArray(array, rand) == shuffleLoop(array, Len(array), rand)

choiceKeys == <<"a", "b", "c", "d", "e">>

\* shuffledChoices.findIndex(([, value]) => value === originalCorrectValue),
\* 0 where findIndex returns -1
findIndexOfValue(entries, v) ==
    IF \E i \in 1..Len(entries) : entries[i].value = v
    THEN CHOOSE i \in 1..Len(entries) :
            /\ entries[i].value = v
            /\ \A k \in 1..(i - 1) : entries[k].value # v
    ELSE 0

\* const shuffleQuestionChoices = (question) => ...
shuffleQuestionChoices(q, rand) ==
    IF q.choices = NoChoices \/ q.question_type # "mcq" THEN q
    ELSE LET shuffledChoices == shuffleArray(q.choices, rand)
             kept == IF Len(shuffledChoices) < Len(choiceKeys)
                     THEN Len(shuffledChoices) ELSE Len(choiceKeys)
             newChoices == [i \in 1..kept |->
                               [key |-> choiceKeys[i], value |-> shuffledChoices[i].value]]
             newCorrectKey == findIndexOfValue(shuffledChoices, q.correct_answer)
         IN  [question_type |-> q.question_type,
              choices |-> newChoices,
              correct_answer |-> IF newCorrectKey # 0 /\ newCorrectKey <= Len(choiceKeys)
                                 THEN choiceKeys[newCorrectKey]
                                 ELSE IF newCorrectKey # 0 THEN "undefined"
                                 ELSE q.correct_answer]

MaxChoices == 4

ChoiceTexts == <<"w", "x", "y", "z", "v", "u">>
UpperKeys == <<"A", "B", "C", "D", "E", "F">>
LowerKeys == <<"a", "b", "c", "d", "e", "f">>

\* questions as generate-questions stores them (keys A-D, the answer a key)
\* and as the question form stores them (the answer a key or a text)
ShuffleQuestions ==
    { [question_type |-> t, choices |-> NoChoices, correct_answer |-> "A"] :
         t \in {"mcq", "essay"} }
    \cup
    UNION { { [question_type |-> t,
               choices |-> [i \in 1..n |-> [key |-> keys[i], value |-> ChoiceTexts[i]]],
               correct_answer |-> a] :
                 t \in {"mcq", "multiple-choice"},
                 keys \in {UpperKeys, LowerKeys},
                 a \in { UpperKeys[i] : i \in 1..n } \cup { LowerKeys[i] : i \in 1..n }
                       \cup { ChoiceTexts[i] : i \in 1..n } \cup {"none"} } :
            n \in 2..MaxChoices }

RandomDraws(n) == { r \in [2..n -> 1..n] : \A i \in 2..n : r[i] <= i }

NoShuffleQuestion == [question_type |-> "none", choices |-> NoChoices, correct_answer |-> "none"]

ShuffleIdle ==
    /\ original = NoShuffleQuestion
    /\ shuffledQuestion = NoShuffleQuestion

-----------------------------------------------------------------------------
(* Exam formats (unnamed/part_002).  The instruction text of a section is   *)
(* left out; totalItems 0 stands for an omitted argument as well, both      *)
(* being falsy.                                                             *)

Section(id, title, type, start, end, points) ==
    [id |-> id, title |-> title, questionType |-> type,
     startNumber |-> start, endNumber |-> end, pointsPerQuestion |-> points]

FORMAT_1 ==
    [id |-> "format_1", totalItems |-> 50, totalPoints |-> 50,
     sections |-> << Section("A", "Multiple Choice", "mcq", 1, 50, 1) >>]

FORMAT_2 ==
    [id |-> "format_2", totalItems |-> 50, totalPoints |-> 50,
     sections |-> << Section("A", "Multiple Choice", "mcq", 1, 35, 1),
                     Section("B", "True or False", "true_false", 36, 45, 1),
                     Section("C", "Essay", "essay", 46, 50, 5) >>]

FORMAT_3 ==
    [id |-> "format_3", totalItems |-> 50, totalPoints |-> 50,
     sections |-> << Section("A", "Multiple Choice", "mcq", 1, 30, 1),
                     Section("B", "Fill in the Blank", "fill_blank", 31, 40, 1),
                     Section("C", "True or False", "true_false", 41, 50, 1) >>]

FORMAT_4 ==
    [id |-> "format_4", totalItems |-> 50, totalPoints |-> 50,
     sections |-> << Section("A", "Multiple Choice", "mcq", 1, 40, 1),
                     Section("B", "Essay", "essay", 41, 50, 5) >>]

EXAM_FORMATS == <<FORMAT_1, FORMAT_2, FORMAT_3, FORMAT_4>>

\* the least integer not below originalCount * totalItems / formatItems
roundUp(originalCount, totalItems, formatItems) ==
    (originalCount * totalItems + formatItems - 1) \div formatItems

\* Math.round(originalCount * (totalItems / format.totalItems)): halves go
\* up; for these formats and up to 300 items the double product rounds as
\* the exact quotient does
roundScaled(originalCount, totalItems, formatItems) ==
    (2 * originalCount * totalItems + formatItems) \div (2 * formatItems)

\* format.sections.map((section, idx) => ...) from section idx on
RECURSIVE scaleLoop(_, _, _, _, _)
scaleLoop(format, totalItems, idx, usedItems, acc) ==
    IF idx > Len(format.sections) THEN acc
    ELSE LET section == format.sections[idx]
             originalCount == section.endNumber - section.startNumber + 1
             scaledCount == IF idx = Len(format.sections)
                            THEN totalItems - usedItems
                            ELSE roundScaled(originalCount, totalItems, format.totalItems)
         IN  scaleLoop(format, totalItems, idx + 1, usedItems + scaledCount,
                       Append(acc, [section EXCEPT !.startNumber = usedItems + 1,
                                                   !.endNumber = usedItems + scaledCount]))

\* function scaledFormatSections(format, totalItems)
scaledFormatSections(format, totalItems) == scaleLoop(format, totalItems, 1, 0, <<>>)

\* function getFormatRequirements(format, totalItems?)
getFormatRequirements(format, totalItems) ==
    LET sections == IF totalItems # 0 THEN scaledFormatSections(format, totalItems)
                    ELSE format.sections
    IN  [i \in 1..Len(sections) |->
            [questionType |-> sections[i].questionType,
             count |-> sections[i].endNumber - sections[i].startNumber + 1,
             sectionTitle |-> sections[i].title,
             pointsPerQuestion |-> sections[i].pointsPerQuestion]]

MaxTotalItems == 60

FormatIdle ==
    /\ examFormat = 0
    /\ itemsRequested = 0
    /\ scaledSections = <<>>
    /\ requirements = <<>>

-----------------------------------------------------------------------------
(* The generate-questions handler (unnamed/part_001), one step per await:   *)
(* getUser, the request body, the call of the AI service, its reply, and    *)
(* the insert; what follows the reply is taken in two steps, the try block  *)
(* around JSON.parse and the filter.  checksPassed records the checks the   *)
(* request has passed so far, each added by the step that makes it.         *)

BloomNames == {"Remembering", "Understanding", "Applying", "Analyzing", "Evaluating", "Creating"}
DifficultyNames == {"Easy", "Average", "Difficult"}

\* generateRequestSchema.parse(rawInput) succeeds
generateSchemaAccepts(body) ==
    /\ body.tos_id.uuid
    /\ Len(body.request.topic) >= 2 /\ Len(body.request.topic) <= 200
    /\ body.request.bloom_level \in BloomNames
    /\ body.request.difficulty \in DifficultyNames
    /\ body.request.count >= 1 /\ body.request.count <= 20

\* q.choices where the item has none
NullChoices == [null |-> TRUE]

AnswerKeys == <<"A", "B", "C", "D">>

\* an element of items that is null
NullItem ==
    [json |-> "null", text |-> Nil, choices |-> NullChoices, correct_answer |-> "",
     bloom_level |-> "", difficulty |-> "", knowledge_dimension |-> ""]

\* the filter of validQuestions, without the test of correct_answer
isValidQuestionAnyAnswer(q) ==
    /\ q.text # Nil /\ Len(q.text) > 10
    /\ q.choices # NullChoices
    /\ \A k \in 1..Len(AnswerKeys) : Len(q.choices[AnswerKeys[k]]) > 0

\* items.filter(q => q.text && q.text.length > 10 && q.choices && ...)
isValidQuestion(q) ==
    /\ q.text # Nil /\ Len(q.text) > 10
    /\ q.choices # NullChoices
    /\ \A k \in 1..Len(AnswerKeys) : Len(q.choices[AnswerKeys[k]]) > 0
    /\ \E k \in 1..Len(AnswerKeys) : AnswerKeys[k] = q.correct_answer

RECURSIVE validQuestionsOf(_)
validQuestionsOf(items) ==
    IF items = <<>> THEN <<>>
    ELSE IF isValidQuestion(Head(items))
         THEN <<Head(items)>> \o validQuestionsOf(Tail(items))
         ELSE validQuestionsOf(Tail(items))

\* generatedQuestions.items || [] of a parsed reply: the items, or none when
\* the reply holds no items (or null, false, 0 or "" in their place)
itemsOf(reply) == IF reply.items = "none" THEN <<>> ELSE reply.list

\* items.filter(...) throws a TypeError: the reply is null, so that no key
\* of it can be read; or its items are a value that is not falsy and has no
\* filter; or one of the items is null
filterThrows(reply) ==
    \/ reply.items \in {"null reply", "no array"}
    \/ \E i \in 1..Len(itemsOf(reply)) : itemsOf(reply)[i] = NullItem

\* validQuestions.map(q => ({ tos_id, topic, ... })); a key the item does
\* not carry, or carries with an empty text, is ""
questionsToInsert(valid, body, user) ==
    [i \in 1..Len(valid) |->
        [tos_id |-> body.tos_id,
         topic |-> body.request.topic,
         question_text |-> valid[i].text,
         question_type |-> "multiple-choice",
         choices |-> valid[i].choices,
         correct_answer |-> valid[i].correct_answer,
         bloom_level |-> IF valid[i].bloom_level # "" THEN valid[i].bloom_level
                         ELSE body.request.bloom_level,
         difficulty |-> IF valid[i].difficulty # "" THEN valid[i].difficulty
                        ELSE body.request.difficulty,
         knowledge_dimension |-> IF valid[i].knowledge_dimension # ""
                                 THEN valid[i].knowledge_dimension
                                 ELSE "Conceptual",
         created_by |-> "ai",
         approved |-> FALSE,
         confidence_score |-> 8,
         owner |-> user]]

generateReply(status, error, generated, inserted) ==
    [status |-> status, error |-> error,
     generated_count |-> generated, inserted_count |-> inserted]

MaxGenerated == 2

Chars(n) == [i \in 1..n |-> "q"]

FourChoices(d) == [A |-> <<"w">>, B |-> <<"x">>, C |-> <<"y">>, D |-> d]

\* an item of the reply that is an object
Item(text, choices, answer, bloom, difficulty, kd) ==
    [json |-> "object", text |-> text, choices |-> choices, correct_answer |-> answer,
     bloom_level |-> bloom, difficulty |-> difficulty, knowledge_dimension |-> kd]

\* items an AI reply can hold: a good one with its own level, difficulty and
\* dimension, a good one without them, a text of 10 characters, an empty
\* choice D, no choices, an answer outside A-D, no text, and null
GeneratedItems ==
    { Item(Chars(11), FourChoices(<<"z">>), "A", "Applying", "Difficult", "Factual"),
      Item(Chars(12), FourChoices(<<"z">>), "D", "", "", ""),
      Item(Chars(10), FourChoices(<<"z">>), "A", "", "", ""),
      Item(Chars(11), FourChoices(<<>>), "A", "", "", ""),
      Item(Chars(11), NullChoices, "A", "", "", ""),
      Item(Chars(11), FourChoices(<<"z">>), "E", "", "Average", ""),
      Item(Nil, FourChoices(<<"z">>), "B", "", "", ""),
      NullItem }

\* what the AI service answers: an HTTP error, content that is not JSON, the
\* JSON null, JSON without items, JSON whose items are no array, or JSON
\* with a list of items
AIReplies ==
    { [ok |-> FALSE, parses |-> FALSE, items |-> "none", list |-> <<>>],
      [ok |-> TRUE, parses |-> FALSE, items |-> "none", list |-> <<>>],
      [ok |-> TRUE, parses |-> TRUE, items |-> "null reply", list |-> <<>>],
      [ok |-> TRUE, parses |-> TRUE, items |-> "none", list |-> <<>>],
      [ok |-> TRUE, parses |-> TRUE, items |-> "no array", list |-> <<>>] }
    \cup
    { [ok |-> TRUE, parses |-> TRUE, items |-> "array", list |-> list] :
         list \in UNION { [1..n -> GeneratedItems] : n \in 0..MaxGenerated } }

NoReply == [ok |-> FALSE, parses |-> FALSE, items |-> "none", list |-> <<>>]

GenerateBodies ==
    { [tos_id |-> id, request |-> [topic |-> t, bloom_level |-> b,
                                   difficulty |-> "Easy", count |-> c]] :
         id \in {Id(1), BadId},
         t \in { <<"a", "b">>, <<"a">> },
         b \in {"Remembering", "remembering"},
         c \in {5, 21} }

GenerateRequests ==
    [auth : {"missing", "rejected", "teacher"}, body : GenerateBodies, apiKey : BOOLEAN]

NoGenerateRequest ==
    [auth |-> "missing",
     body |-> [tos_id |-> NoId, request |-> [topic |-> <<>>, bloom_level |-> "",
                                             difficulty |-> "", count |-> 0]],
     apiKey |-> FALSE]

NoGenerateResponse == generateReply(0, "", 0, 0)

GenerateIdle ==
    /\ genRequest = NoGenerateRequest
    /\ genReply = NoReply
    /\ checksPassed = <<>>
    /\ insertedRows = <<>>
    /\ genResponse = NoGenerateResponse

LaterIdle ==
    /\ VectorIdle
    /\ ReviewIdle
    /\ RubricIdle
    /\ AnalyticsIdle
    /\ ShuffleIdle
    /\ FormatIdle
    /\ GenerateIdle

-----------------------------------------------------------------------------
(* The analysis request and the changes of the table around it *)

Init ==
    /\ pc = "ready"
    /\ variant \in {"normalize", "lowerTrim"}
    /\ tosMatrix \in Matrices
    /\ rawQuestions \in Tables
    /\ analysis = NoAnalysis
    /\ previous = NoAnalysis
    /\ touched = "none"
    /\ question = NoQuestion
    /\ guess = NoGuess
    /\ response = NoResponse
    /\ request = NoRequest
    /\ corpus = <<>>
    /\ stored = <<>>
    /\ similar = NoSimilar
    /\ search = NoSearch
    /\ LaterIdle

\* one call of analyzeTOSSufficiency(tosMatrix); the query may fail
Analyze ==
    /\ pc = "ready"
    /\ variant = "normalize"
    /\ \E err \in BOOLEAN :
          analysis' = analyzeTOSSufficiency(tosMatrix, rawQuestions, err)
    /\ previous' = analysis
    /\ pc' = "done"
    /\ UNCHANGED <<variant, tosMatrix, rawQuestions, touched, classifierVars, similarityVars, laterVars>>

\* the same call with the definition of unnamed/part_004 deployed
AnalyzeLowerTrim ==
    /\ pc = "ready"
    /\ variant = "lowerTrim"
    /\ \E err \in BOOLEAN :
          analysis' = analyzeTOSSufficiencyLowerTrim(tosMatrix, rawQuestions, err)
    /\ previous' = analysis
    /\ pc' = "done"
    /\ UNCHANGED <<variant, tosMatrix, rawQuestions, touched, classifierVars, similarityVars, laterVars>>

\* the update of a validate request to validation-workflow, between two
\* analyses: .update({...classification, ...}).eq('id', questionId) writes the
\* level of the row with that id, deleted or not, and no topic; one such
\* request is followed
UpdateQuestion ==
    /\ pc = "done"
    /\ touched = "none"
    /\ ~analysis.threw
    /\ \E i \in 1..Len(rawQuestions), l \in QuestionLevels :
          /\ l # rawQuestions[i].bloom_level
          /\ rawQuestions' = [rawQuestions EXCEPT ![i].bloom_level = l]
          /\ touched' = IF rawQuestions[i].deleted THEN "deleted" ELSE "live"
    /\ pc' = "ready"
    /\ UNCHANGED <<variant, tosMatrix, analysis, previous, classifierVars, similarityVars, laterVars>>

Next == Analyze \/ AnalyzeLowerTrim \/ UpdateQuestion

Spec == Init /\ [][Next]_vars

-----------------------------------------------------------------------------
(* The per-topic variant (unnamed/part_005) on its own table columns *)

UsableKinds ==
    << [topic |-> <<"A","B">>, deleted |-> FALSE, approved |-> TRUE],
       [topic |-> <<"A","B">>, deleted |-> FALSE, approved |-> FALSE],
       [topic |-> <<"A","B">>, deleted |-> TRUE,  approved |-> TRUE],
       [topic |-> <<"d","!"," ">>, deleted |-> FALSE, approved |-> TRUE],
       [topic |-> <<"d","!"," ">>, deleted |-> TRUE,  approved |-> TRUE],
       [topic |-> <<"C","o","n","s","t","r","u","c","t","o","r","!">>,
        deleted |-> FALSE, approved |-> TRUE] >>

\* the matrices of the analysis, and those of one topic named as a property
\* every object inherits
MatricesByTopic ==
    Matrices
    \cup { MatrixOf(<<r>>) :
             r \in { [topic_name |-> <<"c","o","n","s","t","r","u","c","t","o","r">>,
                      topic |-> Nil, items |-> it] : it \in [PairLevels -> 0..MaxReqPair] } }
    \cup { MatrixOf(<<a, b>>) :
             a \in { [topic_name |-> <<"a","b">>, topic |-> Nil, items |-> it] :
                         it \in [PairLevels -> 1..1] },
             b \in { [topic_name |-> <<"C","o","n","s","t","r","u","c","t","o","r">>,
                      topic |-> Nil, items |-> it] : it \in [PairLevels -> 0..MaxReqPair] } }

TablesByTopic ==
    LET Idx == UNION { [1..n -> 1..Len(UsableKinds)] : n \in 0..MaxItems }
        Sorted == { f \in Idx : \A i \in 1..(Len(f) - 1) : f[i] <= f[i + 1] }
    IN  { [i \in 1..Len(f) |-> UsableKinds[f[i]]] : f \in Sorted }

InitByTopic ==
    /\ pc = "ready"
    /\ variant = "byTopic"
    /\ tosMatrix \in MatricesByTopic
    /\ rawQuestions \in TablesByTopic
    /\ analysis = NoAnalysis
    /\ previous = NoAnalysis
    /\ touched = "none"
    /\ question = NoQuestion
    /\ guess = NoGuess
    /\ response = NoResponse
    /\ request = NoRequest
    /\ corpus = <<>>
    /\ stored = <<>>
    /\ similar = NoSimilar
    /\ search = NoSearch
    /\ LaterIdle

AnalyzeByTopic ==
    /\ pc = "ready"
    /\ variant = "byTopic"
    /\ \E err \in BOOLEAN :
          analysis' = analyzeTOSSufficiencyByTopic(tosMatrix, rawQuestions, err)
    /\ previous' = analysis
    /\ pc' = "done"
    /\ UNCHANGED <<variant, tosMatrix, rawQuestions, touched, classifierVars, similarityVars, laterVars>>

NextByTopic == AnalyzeByTopic

SpecByTopic == InitByTopic /\ [][NextByTopic]_vars

-----------------------------------------------------------------------------
(* Requests to classify-questions *)

InitClassify ==
    /\ pc = "ready"
    /\ variant \in {"rules", "llm"}
    /\ question \in (IF variant = "rules" THEN RuleQuestions ELSE LLMQuestions)
    /\ guess = NoGuess
    /\ response = NoResponse
    /\ tosMatrix = NullMatrix
    /\ rawQuestions = <<>>
    /\ analysis = NoAnalysis
    /\ previous = NoAnalysis
    /\ touched = "none"
    /\ request = NoRequest
    /\ corpus = <<>>
    /\ stored = <<>>
    /\ similar = NoSimilar
    /\ search = NoSearch
    /\ LaterIdle

\* a direct call of guessBloomAndKD(text, type)
Guess ==
    /\ pc = "ready"
    /\ variant = "rules"
    /\ guess' = guessBloomAndKD(question.text, question.type)
    /\ pc' = "guessed"
    /\ UNCHANGED <<variant, question, response, sufficiencyVars, similarityVars, laterVars>>

\* one POST to the rule-based handler, with a one-element payload
Serve ==
    /\ pc = "ready"
    /\ variant = "rules"
    /\ \E auth \in {"missing", "rejected", "ok"} :
          response' = serveRules(auth, question)
    /\ pc' = "served"
    /\ UNCHANGED <<variant, question, guess, sufficiencyVars, similarityVars, laterVars>>

\* one POST to the OpenAI handler, with one question
ServeLLM ==
    /\ pc = "ready"
    /\ variant = "llm"
    /\ \E reply \in LLMReplies : response' = serveLLM(question, reply)
    /\ pc' = "served"
    /\ UNCHANGED <<variant, question, guess, sufficiencyVars, similarityVars, laterVars>>

NextClassify == Guess \/ Serve \/ ServeLLM

SpecClassify == InitClassify /\ [][NextClassify]_vars

-----------------------------------------------------------------------------
(* Requests to semantic-similarity *)

InitSimilar ==
    /\ pc = "ready"
    /\ variant = "similarity"
    /\ request \in SimilarityRequests
    /\ corpus \in Corpora
    /\ stored = <<>>
    /\ similar = NoSimilar
    /\ search = NoSearch
    /\ tosMatrix = NullMatrix
    /\ rawQuestions = <<>>
    /\ analysis = NoAnalysis
    /\ previous = NoAnalysis
    /\ touched = "none"
    /\ question = NoQuestion
    /\ guess = NoGuess
    /\ response = NoResponse
    /\ LaterIdle

\* a POST to the semantic-similarity handler up to the answer of the questions
\* query: a refusal, a failed query, or the fetched rows to loop over
SearchSimilar ==
    /\ pc = "ready"
    /\ variant = "similarity"
    /\ \E auth \in {"missing", "present"}, err \in BOOLEAN :
          LET refusal == similarityRefusal(auth, request, err)
          IN  IF refusal # NoSimilar
              THEN /\ similar' = refusal
                   /\ search' = search
                   /\ pc' = "searched"
              ELSE /\ similar' = similar
                   /\ search' = [questions |-> questionsExcept(corpus, request.questionId),
                                 i |-> 1, similarities |-> <<>>, upserts |-> 0]
                   /\ pc' = "comparing"
    /\ UNCHANGED <<variant, request, corpus, stored, sufficiencyVars, classifierVars, laterVars>>

\* one pass of the loop body: the fetched row is scored, a match is pushed and,
\* when the request names a question, upserted; the upsert may answer with an
\* error, which the handler does not read
CompareQuestion ==
    /\ pc = "comparing"
    /\ variant = "similarity"
    /\ search.i <= Len(search.questions)
    /\ \E ok \in BOOLEAN :
          LET q == search.questions[search.i]
              similarity == calculateCosineSimilarity(request.questionText, q.question_text)
              hit == SimGeq(similarity, thresholdOf(request))
              upserts == hit /\ request.questionId # NoId
          IN  /\ ~ok => upserts /\ search.upserts < MaxFaultyUpserts
              /\ search' = [search EXCEPT
                              !.i = @ + 1,
                              !.similarities = IF hit THEN Append(@, similarityEntry(q, similarity))
                                               ELSE @,
                              !.upserts = IF upserts THEN @ + 1 ELSE @]
              /\ stored' = IF upserts /\ ok
                           THEN Append(stored, similarityRow(request.questionId, q, similarity))
                           ELSE stored
    /\ UNCHANGED <<pc, variant, request, corpus, similar, sufficiencyVars, classifierVars, laterVars>>

\* after the loop: the matches are sorted and the top 10 returned
RespondSimilar ==
    /\ pc = "comparing"
    /\ variant = "similarity"
    /\ search.i > Len(search.questions)
    /\ similar' = similarityResponse(search.similarities)
    /\ pc' = "searched"
    /\ UNCHANGED <<variant, request, corpus, stored, search, sufficiencyVars, classifierVars, laterVars>>

NextSimilar == SearchSimilar \/ CompareQuestion \/ RespondSimilar

SpecSimilar == InitSimilar /\ [][NextSimilar]_vars

-----------------------------------------------------------------------------
(* Calls of generateSemanticVector *)

InitVector ==
    /\ pc = "ready"
    /\ variant = "vector"
    /\ vectorText \in VectorTexts
    /\ vector = NoVector
    /\ EarlierIdle
    /\ ReviewIdle
    /\ RubricIdle
    /\ AnalyticsIdle
    /\ ShuffleIdle
    /\ FormatIdle
    /\ GenerateIdle

\* one call of generateSemanticVector(text)
GenerateVector ==
    /\ pc = "ready"
    /\ variant = "vector"
    /\ vector' = generateSemanticVector(vectorText)
    /\ pc' = "hashed"
    /\ UNCHANGED <<variant, vectorText, sufficiencyVars, classifierVars, similarityVars,
                   reviewVars, rubricVars, analyticsVars, shuffleVars, formatVars, generateVars>>

NextVector == GenerateVector

SpecVector == InitVector /\ [][NextVector]_vars

-----------------------------------------------------------------------------
(* Requests to validation-workflow *)

InitReview ==
    /\ pc = "ready"
    /\ variant = "review"
    /\ questionRows \in ReviewTables
    /\ validations = <<>>
    /\ reviewFlights = <<>>
    /\ reviewResponse = NoReviewResponse
    /\ reviewCalls = 0
    /\ EarlierIdle
    /\ VectorIdle
    /\ RubricIdle
    /\ AnalyticsIdle
    /\ ShuffleIdle
    /\ FormatIdle
    /\ GenerateIdle

\* a POST arrives: the handler runs to its first await, or answers 401 when
\* the Authorization header is missing
ServeReview ==
    /\ pc = "ready"
    /\ variant = "review"
    /\ reviewCalls < MaxCalls
    /\ \E auth \in {"missing", "rejected", "teacher"}, body \in ReviewBodies :
          IF auth = "missing"
          THEN /\ reviewResponse' = [status |-> 401, message |-> "Missing authorization header",
                                     validated |-> 0, needsReview |-> 0]
               /\ UNCHANGED reviewFlights
          ELSE /\ reviewFlights' = Append(reviewFlights, suspended(auth, body))
               /\ UNCHANGED reviewResponse
    /\ reviewCalls' = reviewCalls + 1
    /\ UNCHANGED <<pc, variant, questionRows, validations,
                   sufficiencyVars, classifierVars, similarityVars, vectorVars,
                   rubricVars, analyticsVars, shuffleVars, formatVars, generateVars>>

\* the handler of request f runs from the await it waits at to its next
\* await, or to its response
Resume(f, out) ==
    /\ questionRows' = out.rows
    /\ validations' = out.log
    /\ IF out.flight.at = "done"
       THEN /\ reviewFlights' = SubSeq(reviewFlights, 1, f - 1)
                                   \o SubSeq(reviewFlights, f + 1, Len(reviewFlights))
            /\ reviewResponse' = out.response
       ELSE /\ reviewFlights' = [reviewFlights EXCEPT ![f] = out.flight]
            /\ UNCHANGED reviewResponse
    /\ UNCHANGED <<pc, variant, reviewCalls,
                   sufficiencyVars, classifierVars, similarityVars, vectorVars,
                   rubricVars, analyticsVars, shuffleVars, formatVars, generateVars>>

Waiting(at) == { f \in 1..Len(reviewFlights) : reviewFlights[f].at = at }

\* await supabaseClient.auth.getUser(token) returns
ReviewGetUser ==
    /\ variant = "review"
    /\ \E f \in Waiting("getUser") :
          Resume(f, afterGetUser(questionRows, validations, reviewFlights[f]))

\* await req.json() returns
ReviewParse ==
    /\ variant = "review"
    /\ \E f \in Waiting("json") :
          Resume(f, afterJson(questionRows, validations, reviewFlights[f]))

\* case 'validate': the select returns
ValidateSelect ==
    /\ variant = "review"
    /\ \E f \in Waiting("select"), ok \in BOOLEAN :
          Resume(f, afterSelect(questionRows, validations, reviewFlights[f], ok))

\* case 'validate': the insert into classification_validations returns
ValidateInsert ==
    /\ variant = "review"
    /\ \E f \in Waiting("insert"), ok \in BOOLEAN :
          Resume(f, afterInsert(questionRows, validations, reviewFlights[f], ok))

\* case 'validate': the update returns and the handler answers
ValidateUpdate ==
    /\ variant = "review"
    /\ \E f \in Waiting("update"), ok \in BOOLEAN :
          Resume(f, afterUpdate(questionRows, validations, reviewFlights[f], ok))

\* case 'reject': the update returns and the handler answers
RejectUpdate ==
    /\ variant = "review"
    /\ \E f \in Waiting("rejectUpdate"), ok \in BOOLEAN :
          Resume(f, afterRejectUpdate(questionRows, validations, reviewFlights[f], ok))

\* case 'batch_validate': the select for one id returns
BatchSelect ==
    /\ variant = "review"
    /\ \E f \in Waiting("batchSelect"), ok \in BOOLEAN :
          Resume(f, afterBatchSelect(questionRows, validations, reviewFlights[f], ok))

\* case 'batch_validate': the update for one id returns
BatchUpdate ==
    /\ variant = "review"
    /\ \E f \in Waiting("batchUpdate"), ok \in BOOLEAN :
          Resume(f, afterBatchUpdate(questionRows, validations, reviewFlights[f], ok))

NextReview ==
    \/ ServeReview
    \/ ReviewGetUser
    \/ ReviewParse
    \/ ValidateSelect
    \/ ValidateInsert
    \/ ValidateUpdate
    \/ RejectUpdate
    \/ BatchSelect
    \/ BatchUpdate

SpecReview == InitReview /\ [][NextReview]_vars

-----------------------------------------------------------------------------
(* Requests to the rubrics endpoint *)

InitRubrics ==
    /\ pc = "ready"
    /\ variant = "rubrics"
    /\ \E s \in RubricStores : rubricTable = s.rubrics /\ criteriaTable = s.criteria
    /\ rubricFlights = <<>>
    /\ rubricResponse = NoRubricResponse
    /\ rubricCalls = 0
    /\ EarlierIdle
    /\ VectorIdle
    /\ ReviewIdle
    /\ AnalyticsIdle
    /\ ShuffleIdle
    /\ FormatIdle
    /\ GenerateIdle

\* a request arrives: the handler answers it or runs to its first await
Arrive(req) ==
    /\ pc = "ready"
    /\ variant = "rubrics"
    /\ rubricCalls < MaxRubricCalls
    /\ rubricFlights' = Append(rubricFlights, rubricsHandler(req))
    /\ rubricResponse' = IF rubricsHandler(req).at = "done" THEN rubricsHandler(req).response
                         ELSE rubricResponse
    /\ rubricCalls' = rubricCalls + 1
    /\ UNCHANGED <<pc, variant, rubricTable, criteriaTable,
                   sufficiencyVars, classifierVars, similarityVars, vectorVars,
                   reviewVars, analyticsVars, shuffleVars, formatVars, generateVars>>

GetRubric ==
    \E id \in 0..2, caller \in RubricCallers :
        Arrive([method |-> "GET", rubricId |-> id, auth |-> caller.auth,
                user |-> caller.user, body |-> NoRubricBody])

PostRubric ==
    \E caller \in RubricCallers, body \in RubricBodies :
        Arrive([method |-> "POST", rubricId |-> NoRubricId, auth |-> caller.auth,
                user |-> caller.user, body |-> body])

PutRubric ==
    \E id \in 0..2, caller \in RubricCallers, body \in RubricBodies :
        Arrive([method |-> "PUT", rubricId |-> id, auth |-> caller.auth,
                user |-> caller.user, body |-> body])

DeleteRubric ==
    \E id \in 0..2, caller \in RubricCallers :
        Arrive([method |-> "DELETE", rubricId |-> id, auth |-> caller.auth,
                user |-> caller.user, body |-> NoRubricBody])

\* the CORS preflight, and a method the switch has no case for
OtherMethod ==
    \E method \in {"OPTIONS", "PATCH"}, caller \in RubricCallers :
        Arrive([method |-> method, rubricId |-> NoRubricId, auth |-> caller.auth,
                user |-> caller.user, body |-> NoRubricBody])

\* the handler of request f runs from the await it waits at to its next
\* await, or to its response
RubricResume(f, out) ==
    /\ rubricTable' = out.rubrics
    /\ criteriaTable' = out.criteria
    /\ rubricFlights' = [rubricFlights EXCEPT ![f] = out.flight]
    /\ rubricResponse' = IF out.flight.at = "done" THEN out.flight.response
                         ELSE rubricResponse
    /\ UNCHANGED <<pc, variant, rubricCalls,
                   sufficiencyVars, classifierVars, similarityVars, vectorVars,
                   reviewVars, analyticsVars, shuffleVars, formatVars, generateVars>>

RubricWaiting(at) == { f \in 1..Len(rubricFlights) : rubricFlights[f].at = at }

SelectRubric ==
    /\ variant = "rubrics"
    /\ \E f \in RubricWaiting("select"), failed \in BOOLEAN :
          RubricResume(f, afterSelectRubric(rubricTable, criteriaTable, rubricFlights[f],
                                            failed))

SelectCriteria ==
    /\ variant = "rubrics"
    /\ \E f \in RubricWaiting("selectCriteria"), failed \in BOOLEAN :
          RubricResume(f, afterSelectCriteria(rubricTable, criteriaTable, rubricFlights[f],
                                              failed))

RubricJson ==
    /\ variant = "rubrics"
    /\ \E f \in RubricWaiting("json") :
          RubricResume(f, afterRubricJson(rubricTable, criteriaTable, rubricFlights[f]))

RubricGetUser ==
    /\ variant = "rubrics"
    /\ \E f \in RubricWaiting("getUser") :
          RubricResume(f, afterRubricGetUser(rubricTable, criteriaTable, rubricFlights[f]))

InsertRubric ==
    /\ variant = "rubrics"
    /\ \E f \in RubricWaiting("insertRubric"), failed \in BOOLEAN :
          RubricResume(f, afterInsertRubric(rubricTable, criteriaTable, rubricFlights[f],
                                            failed))

InsertCriteria ==
    /\ variant = "rubrics"
    /\ \E f \in RubricWaiting("insertCriteria"), failed \in BOOLEAN :
          RubricResume(f, afterInsertCriteria(rubricTable, criteriaTable, rubricFlights[f],
                                              failed))

UpdateRubric ==
    /\ variant = "rubrics"
    /\ \E f \in RubricWaiting("update"), failed \in BOOLEAN :
          RubricResume(f, afterUpdateRubric(rubricTable, criteriaTable, rubricFlights[f],
                                            failed))

DeleteCriteria ==
    /\ variant = "rubrics"
    /\ \E f \in RubricWaiting("deleteCriteria"), failed \in BOOLEAN :
          RubricResume(f, afterDeleteCriteria(rubricTable, criteriaTable, rubricFlights[f],
                                              failed))

DeleteRubricRow ==
    /\ variant = "rubrics"
    /\ \E f \in RubricWaiting("delete"), failed \in BOOLEAN, cascade \in BOOLEAN :
          RubricResume(f, afterDeleteRubric(rubricTable, criteriaTable, rubricFlights[f],
                                            failed, cascade))

NextRubrics ==
    \/ GetRubric
    \/ PostRubric
    \/ PutRubric
    \/ DeleteRubric
    \/ OtherMethod
    \/ SelectRubric
    \/ SelectCriteria
    \/ RubricJson
    \/ RubricGetUser
    \/ InsertRubric
    \/ InsertCriteria
    \/ UpdateRubric
    \/ DeleteCriteria
    \/ DeleteRubricRow

SpecRubrics == InitRubrics /\ [][NextRubrics]_vars

-----------------------------------------------------------------------------
(* useAnalytics: the mount effect, changes of the questions table and their *)
(* realtime events, and the fetches in flight                               *)

InitAnalytics ==
    /\ pc = "ready"
    /\ variant = "analytics"
    /\ analyticsRows \in AnalyticsTables
    /\ changeEvents = 0
    /\ changes = 0
    /\ fetches = <<>>
    /\ analytics = InitialAnalytics
    /\ EarlierIdle
    /\ VectorIdle
    /\ ReviewIdle
    /\ RubricIdle
    /\ ShuffleIdle
    /\ FormatIdle
    /\ GenerateIdle

\* useEffect on mount: fetchAnalytics() and the subscription
Mount ==
    /\ pc = "ready"
    /\ variant = "analytics"
    /\ fetches' = Append(fetches, [stage |-> "sent", error |-> FALSE, rows |-> <<>>])
    /\ pc' = "mounted"
    /\ UNCHANGED <<variant, analyticsRows, changeEvents, changes, analytics,
                   sufficiencyVars, classifierVars, similarityVars, vectorVars,
                   reviewVars, rubricVars, shuffleVars, formatVars, generateVars>>

\* a row of the questions table is inserted or deleted
TableChange ==
    /\ pc = "mounted"
    /\ changes < MaxChanges
    /\ \/ \E r \in AnalyticsRowKinds : analyticsRows' = Append(analyticsRows, r)
       \/ /\ analyticsRows # <<>>
          /\ analyticsRows' = SubSeq(analyticsRows, 1, Len(analyticsRows) - 1)
    /\ changes' = changes + 1
    /\ changeEvents' = changeEvents + 1
    /\ UNCHANGED <<pc, variant, fetches, analytics,
                   sufficiencyVars, classifierVars, similarityVars, vectorVars,
                   reviewVars, rubricVars, shuffleVars, formatVars, generateVars>>

\* the postgres_changes callback: fetchAnalytics()
OnChange ==
    /\ pc = "mounted"
    /\ changeEvents > 0
    /\ changeEvents' = changeEvents - 1
    /\ fetches' = Append(fetches, [stage |-> "sent", error |-> FALSE, rows |-> <<>>])
    /\ UNCHANGED <<pc, variant, analyticsRows, changes, analytics,
                   sufficiencyVars, classifierVars, similarityVars, vectorVars,
                   reviewVars, rubricVars, shuffleVars, formatVars, generateVars>>

\* the database answers one query that was sent
Answer ==
    /\ pc = "mounted"
    /\ \E f \in 1..Len(fetches), err \in BOOLEAN :
          /\ fetches[f].stage = "sent"
          /\ fetches' = [fetches EXCEPT ![f] =
                            [stage |-> "answered", error |-> err,
                             rows |-> IF err THEN <<>> ELSE analyticsRows]]
    /\ UNCHANGED <<pc, variant, analyticsRows, changeEvents, changes, analytics,
                   sufficiencyVars, classifierVars, similarityVars, vectorVars,
                   reviewVars, rubricVars, shuffleVars, formatVars, generateVars>>

\* fetchAnalytics resumes after its await
Resolve ==
    /\ pc = "mounted"
    /\ \E f \in 1..Len(fetches) :
          /\ fetches[f].stage = "answered"
          /\ analytics' = resolveFetch(analytics, fetches[f])
          /\ fetches' = [fetches EXCEPT ![f].stage = "done"]
    /\ UNCHANGED <<pc, variant, analyticsRows, changeEvents, changes,
                   sufficiencyVars, classifierVars, similarityVars, vectorVars,
                   reviewVars, rubricVars, shuffleVars, formatVars, generateVars>>

NextAnalytics == Mount \/ TableChange \/ OnChange \/ Answer \/ Resolve

SpecAnalytics == InitAnalytics /\ [][NextAnalytics]_vars

-----------------------------------------------------------------------------
(* Calls of shuffleQuestionChoices *)

InitShuffle ==
    /\ pc = "ready"
    /\ variant = "shuffle"
    /\ original \in ShuffleQuestions
    /\ shuffledQuestion = NoShuffleQuestion
    /\ EarlierIdle
    /\ VectorIdle
    /\ ReviewIdle
    /\ RubricIdle
    /\ AnalyticsIdle
    /\ FormatIdle
    /\ GenerateIdle

\* one call of shuffleQuestionChoices(question), with any random draws
ShuffleChoices ==
    /\ pc = "ready"
    /\ variant = "shuffle"
    /\ \E rand \in RandomDraws(IF original.choices = NoChoices THEN 1
                               ELSE Len(original.choices)) :
          shuffledQuestion' = shuffleQuestionChoices(original, rand)
    /\ pc' = "shuffled"
    /\ UNCHANGED <<variant, original, sufficiencyVars, classifierVars, similarityVars,
                   vectorVars, reviewVars, rubricVars, analyticsVars, formatVars, generateVars>>

NextShuffle == ShuffleChoices

SpecShuffle == InitShuffle /\ [][NextShuffle]_vars

-----------------------------------------------------------------------------
(* Calls of scaledFormatSections and getFormatRequirements *)

InitFormats ==
    /\ pc = "ready"
    /\ variant = "formats"
    /\ examFormat \in 1..Len(EXAM_FORMATS)
    /\ itemsRequested \in 0..MaxTotalItems
    /\ scaledSections = <<>>
    /\ requirements = <<>>
    /\ EarlierIdle
    /\ VectorIdle
    /\ ReviewIdle
    /\ RubricIdle
    /\ AnalyticsIdle
    /\ ShuffleIdle
    /\ GenerateIdle

\* one call of scaledFormatSections(format, totalItems)
ScaleSections ==
    /\ pc = "ready"
    /\ variant = "formats"
    /\ scaledSections' = scaledFormatSections(EXAM_FORMATS[examFormat], itemsRequested)
    /\ pc' = "scaled"
    /\ UNCHANGED <<variant, examFormat, itemsRequested, requirements,
                   sufficiencyVars, classifierVars, similarityVars, vectorVars,
                   reviewVars, rubricVars, analyticsVars, shuffleVars, generateVars>>

\* one call of getFormatRequirements(format, totalItems)
Requirements ==
    /\ pc \in {"ready", "scaled"}
    /\ variant = "formats"
    /\ requirements' = getFormatRequirements(EXAM_FORMATS[examFormat], itemsRequested)
    /\ pc' = "required"
    /\ UNCHANGED <<variant, examFormat, itemsRequested, scaledSections,
                   sufficiencyVars, classifierVars, similarityVars, vectorVars,
                   reviewVars, rubricVars, analyticsVars, shuffleVars, generateVars>>

NextFormats == ScaleSections \/ Requirements

SpecFormats == InitFormats /\ [][NextFormats]_vars

-----------------------------------------------------------------------------
(* One request to generate-questions *)

InitGenerate ==
    /\ pc = "start"
    /\ variant = "generate"
    /\ genRequest \in GenerateRequests
    /\ genReply = NoReply
    /\ checksPassed = <<>>
    /\ insertedRows = <<>>
    /\ genResponse = NoGenerateResponse
    /\ EarlierIdle
    /\ VectorIdle
    /\ ReviewIdle
    /\ RubricIdle
    /\ AnalyticsIdle
    /\ ShuffleIdle
    /\ FormatIdle

\* the authorization header and supabase.auth.getUser(token)
Authenticate ==
    /\ pc = "start"
    /\ variant = "generate"
    /\ IF genRequest.auth = "missing"
       THEN /\ genResponse' = generateReply(401, "Missing authorization header", 0, 0)
            /\ pc' = "responded"
            /\ UNCHANGED checksPassed
       ELSE IF genRequest.auth = "rejected"
       THEN /\ genResponse' = generateReply(401, "Unauthorized", 0, 0)
            /\ pc' = "responded"
            /\ UNCHANGED checksPassed
       ELSE /\ checksPassed' = Append(checksPassed, "authenticated")
            /\ pc' = "authenticated"
            /\ UNCHANGED genResponse
    /\ UNCHANGED <<variant, genRequest, genReply, insertedRows,
                   sufficiencyVars, classifierVars, similarityVars, vectorVars,
                   reviewVars, rubricVars, analyticsVars, shuffleVars, formatVars>>

\* generateRequestSchema.parse(await req.json()) and the API key
ParseInput ==
    /\ pc = "authenticated"
    /\ IF ~generateSchemaAccepts(genRequest.body)
       THEN /\ genResponse' = generateReply(400, "Invalid input", 0, 0)
            /\ pc' = "responded"
            /\ UNCHANGED checksPassed
       ELSE IF ~genRequest.apiKey
       THEN /\ genResponse' = generateReply(500, "OpenAI API key not configured", 0, 0)
            /\ pc' = "responded"
            /\ checksPassed' = Append(checksPassed, "validated")
       ELSE /\ checksPassed' = Append(checksPassed, "validated")
            /\ pc' = "asking"
            /\ UNCHANGED genResponse
    /\ UNCHANGED <<variant, genRequest, genReply, insertedRows,
                   sufficiencyVars, classifierVars, similarityVars, vectorVars,
                   reviewVars, rubricVars, analyticsVars, shuffleVars, formatVars>>

\* await fetch(...): the AI service answers
CallAI ==
    /\ pc = "asking"
    /\ \E reply \in AIReplies :
          /\ genReply' = reply
          /\ IF ~reply.ok
             THEN /\ genResponse' = generateReply(500, "Failed to generate questions from AI service", 0, 0)
                  /\ pc' = "responded"
             ELSE /\ pc' = "replied"
                  /\ UNCHANGED genResponse
    /\ UNCHANGED <<variant, genRequest, checksPassed, insertedRows,
                   sufficiencyVars, classifierVars, similarityVars, vectorVars,
                   reviewVars, rubricVars, analyticsVars, shuffleVars, formatVars>>

\* await response.json() and the try block around JSON.parse(content)
ParseReply ==
    /\ pc = "replied"
    /\ IF ~genReply.parses
       THEN /\ genResponse' = generateReply(500, "Invalid response format from AI service", 0, 0)
            /\ pc' = "responded"
            /\ UNCHANGED checksPassed
       ELSE /\ checksPassed' = Append(checksPassed, "parsed")
            /\ pc' = "parsed"
            /\ UNCHANGED genResponse
    /\ UNCHANGED insertedRows
    /\ UNCHANGED <<variant, genRequest, genReply,
                   sufficiencyVars, classifierVars, similarityVars, vectorVars,
                   reviewVars, rubricVars, analyticsVars, shuffleVars, formatVars>>

\* items, the filter of validQuestions and the test of its length; a
\* TypeError goes to the catch block
FilterQuestions ==
    /\ pc = "parsed"
    /\ IF filterThrows(genReply)
       THEN /\ genResponse' = generateReply(500, "An unexpected error occurred", 0, 0)
            /\ pc' = "responded"
            /\ UNCHANGED checksPassed
       ELSE IF Len(validQuestionsOf(itemsOf(genReply))) = 0
       THEN /\ genResponse' = generateReply(400, "No valid questions were generated", 0, 0)
            /\ pc' = "responded"
            /\ UNCHANGED checksPassed
       ELSE /\ checksPassed' = Append(checksPassed, "filtered")
            /\ pc' = "inserting"
            /\ UNCHANGED genResponse
    /\ UNCHANGED insertedRows
    /\ UNCHANGED <<variant, genRequest, genReply,
                   sufficiencyVars, classifierVars, similarityVars, vectorVars,
                   reviewVars, rubricVars, analyticsVars, shuffleVars, formatVars>>

\* await supabase.from('questions').insert(questionsToInsert).select('*'),
\* which may fail, and the response
InsertQuestions ==
    /\ pc = "inserting"
    /\ LET valid == validQuestionsOf(itemsOf(genReply))
           rows == questionsToInsert(valid, genRequest.body, genRequest.auth)
       IN  \E insertError \in BOOLEAN :
              IF insertError
              THEN /\ genResponse' = generateReply(500, "Failed to save questions to database", 0, 0)
                   /\ UNCHANGED insertedRows
              ELSE /\ genResponse' = generateReply(200, "", Len(valid), Len(rows))
                   /\ insertedRows' = insertedRows \o rows
    /\ pc' = "responded"
    /\ UNCHANGED checksPassed
    /\ UNCHANGED <<variant, genRequest, genReply,
                   sufficiencyVars, classifierVars, similarityVars, vectorVars,
                   reviewVars, rubricVars, analyticsVars, shuffleVars, formatVars>>

NextGenerate ==
    \/ Authenticate \/ ParseInput \/ CallAI
    \/ ParseReply \/ FilterQuestions \/ InsertQuestions

SpecGenerate == InitGenerate /\ [][NextGenerate]_vars

-----------------------------------------------------------------------------
(* Properties of the sufficiency analysis *)

Finished == pc = "done" /\ ~analysis.threw

\* the normalization of the deployed definition
NormFor(s) == IF variant = "normalize" THEN normalize(s) ELSE lowerTrim(s)

\* the rows of the table that count for cell (topicName, bloom)
MatchingRows(topicName, bloom) ==
    { i \in 1..Len(rawQuestions) :
        /\ ~rawQuestions[i].deleted
        /\ NormFor(rawQuestions[i].bloom_level) = bloom
        /\ LET t == NormFor(rawQuestions[i].topic)
           IN  includes(t, topicName) \/ includes(topicName, t) }

Max0(n) == IF n > 0 THEN n ELSE 0

RefStatus(required, available) ==
    IF available >= required THEN "pass"
    ELSE IF 7 * required <= 10 * available THEN "warning"
    ELSE "fail"

\* C1: whenever totalRequired is 0 the result has overallScore = 100,
\* overallStatus = "pass" and results = [].
C1_NothingRequiredPasses ==
    (Finished /\ analysis.totalRequired = 0) =>
        /\ analysis.overallScore.num = 100 * analysis.overallScore.den
        /\ analysis.overallStatus = "pass"
        /\ analysis.results = <<>>

\* C2: every result row has available = the number of non-deleted rows of the
\* table whose normalized level is the row's level and whose normalized topic
\* contains or is contained in the row's topic, gap = max(0, required - available),
\* and status pass / warning / fail by available >= required, >= 0.7 * required.
C2_RowsAreReference ==
    Finished =>
        \A j \in 1..Len(analysis.results) :
            LET r == analysis.results[j]
            IN  /\ r.available = Cardinality(MatchingRows(r.topic, r.bloomLevel))
                /\ r.gap = Max0(r.required - r.available)
                /\ r.sufficiency = RefStatus(r.required, r.available)

C2_Witness ==
    /\ Finished
    /\ \E j \in 1..Len(analysis.results) :
          LET r == analysis.results[j]
          IN  r.required = 5 /\ r.available = 3 /\ r.gap = 2 /\ r.sufficiency = "fail"

\* C3: the sum of required over the rows is totalRequired, the sum of available
\* over the rows is totalAvailable, and overallScore is computed from these totals.
C3_TotalsAreRowSums ==
    Finished =>
        /\ SumField(analysis.results, "required") = analysis.totalRequired
        /\ SumField(analysis.results, "available") = analysis.totalAvailable
        /\ analysis.totalRequired > 0 =>
              analysis.overallScore.num * analysis.totalRequired
                  = 100 * analysis.totalAvailable * analysis.overallScore.den

C3_Witness ==
    /\ Finished
    /\ Len(analysis.results) >= 2
    /\ analysis.totalRequired > analysis.results[1].required
    /\ analysis.totalAvailable > analysis.results[1].available
    /\ \E j \in 1..Len(analysis.results) :
          analysis.results[j].available > analysis.results[j].required

\* C4: the analysis raises an error if and only if the matrix has no topics array.
C4_ThrowsIffNoTopics ==
    pc = "done" => (analysis.threw <=> (tosMatrix.isNull \/ ~tosMatrix.hasTopics))

\* C5: a deleted row never contributes to a row's available count or to
\* totalAvailable, and changing only deleted rows leaves the result unchanged.
C5_DeletedNeverCount ==
    Finished =>
        LET live == { i \in 1..Len(rawQuestions) : ~rawQuestions[i].deleted }
        IN  /\ \A j \in 1..Len(analysis.results) :
                  analysis.results[j].available <= Cardinality(live)
            /\ analysis.totalAvailable <= Cardinality(live) * Len(analysis.results)
            /\ touched = "deleted" => analysis = previous

C5_Witness ==
    /\ Finished
    /\ touched = "deleted"
    /\ analysis.totalAvailable > 0
    /\ \E i \in 1..Len(rawQuestions), j \in 1..Len(analysis.results) :
          /\ rawQuestions[i].deleted
          /\ NormFor(rawQuestions[i].bloom_level) = analysis.results[j].bloomLevel
          /\ topicsMatch(NormFor(rawQuestions[i].topic), analysis.results[j].topic)

\* the sum of the gaps of the rows of the per-topic result
RECURSIVE SumGaps(_)
SumGaps(rows) ==
    IF rows = <<>> THEN Number(0) ELSE plus(Head(rows).gap, SumGaps(Tail(rows)))

\* C6: a cell with required = 0 is skipped: it produces no row and adds nothing
\* to totalRequired or totalAvailable, so every reported row has required > 0.
C6_ZeroCellsSkipped ==
    Finished =>
        /\ \A j \in 1..Len(analysis.results) : analysis.results[j].required > 0
        /\ analysis.totalRequired = 0 => analysis.totalAvailable = Number(0)

\* C7: if some row has gap > 0 the recommendations ask the generator for exactly
\* the sum of gap over all rows; if no row has gap > 0 no generation is requested.
C7_GeneratorAskedForTotalGap ==
    Finished =>
        LET totalGap == SumGaps(analysis.results)
        IN  IF totalGap.type = "number" /\ totalGap.n > 0
            THEN /\ analysis.recommendations.asksGenerator
                 /\ analysis.recommendations.generate = totalGap
            ELSE ~analysis.recommendations.asksGenerator

\* the same two properties of the definition of sufficiencyAnalysis.ts, whose
\* counts are numbers
ZeroCellsSkippedByCell ==
    Finished =>
        /\ \A j \in 1..Len(analysis.results) : analysis.results[j].required > 0
        /\ analysis.totalRequired = 0 => analysis.totalAvailable = 0

GeneratorAskedForTotalGapByCell ==
    Finished =>
        LET totalGap == SumField(analysis.results, "gap")
        IN  IF totalGap > 0
            THEN /\ analysis.recommendations.asksGenerator
                 /\ analysis.recommendations.generate = totalGap
            ELSE ~analysis.recommendations.asksGenerator

\* C28: if overallStatus is "pass" then every result row has status pass:
\* the total gap is 0 and no additional questions are recommended, so that a
\* surplus in one cell never hides a shortfall in another.
C28_PassMeansEveryRowPasses ==
    (Finished /\ analysis.overallStatus = "pass") =>
        /\ \A j \in 1..Len(analysis.results) : analysis.results[j].sufficiency = "pass"
        /\ SumField(analysis.results, "gap") = 0
        /\ ~analysis.recommendations.asksGenerator

\* the i-th row of the questions table counts for the j-th row of the result
Hits(i, j) ==
    /\ NormFor(rawQuestions[i].bloom_level) = analysis.results[j].bloomLevel
    /\ LET t == NormFor(rawQuestions[i].topic)
       IN  includes(t, analysis.results[j].topic) \/ includes(analysis.results[j].topic, t)

\* rows of the result that the i-th row of the questions table counts for
HitRows(i) == { j \in 1..Len(analysis.results) : Hits(i, j) }

LiveItems == { i \in 1..Len(rawQuestions) : ~rawQuestions[i].deleted }

\* C15: every non-deleted item is counted in every row of its level whose topic
\* contains or is contained in the item's normalized topic, whatever the other
\* rows are, so totalAvailable is the number of (item, row) pairs that match.
C15_ItemCountsInEveryMatchingRow ==
    Finished =>
        /\ \A j \in 1..Len(analysis.results) :
              analysis.results[j].available
                  = Cardinality({ i \in LiveItems : Hits(i, j) })
        /\ analysis.totalAvailable
              = SumOver([i \in LiveItems |-> Cardinality(HitRows(i))], LiveItems)

C15_Witness ==
    /\ Finished
    /\ variant = "normalize"
    /\ analysis.totalAvailable > Cardinality(LiveItems)
    /\ \E i \in LiveItems : \E j, k \in HitRows(i) :
          /\ analysis.results[j].topic # analysis.results[k].topic
          /\ analysis.results[j].topic # NormFor(rawQuestions[i].topic)
          /\ analysis.results[j].available > 0

\* C14: the itemized part of the recommendations is ordered by descending gap
\* and holds at most the 3 failing and the 2 warning rows with the largest gaps.
C14_ItemizedWorstFirstAndCapped ==
    Finished =>
        LET items == analysis.recommendations.itemized
        IN  /\ \A i \in 1..(Len(items) - 1) : items[i].gap >= items[i + 1].gap
            /\ Cardinality({ i \in 1..Len(items) : items[i].sufficiency = "fail" }) <= 3
            /\ Cardinality({ i \in 1..Len(items) : items[i].sufficiency = "warning" }) <= 2

-----------------------------------------------------------------------------
(* Properties of the classifier *)

\* C8: for every text and declared type, the confidence returned by
\* guessBloomAndKD lies in [0.1, 1.0].
C8_ConfidenceInRange ==
    pc = "guessed" =>
        /\ guess.confidence # NaN
        /\ ~FLess(guess.confidence, Dbl(1))
        /\ ~FLess(Dbl(10), guess.confidence)

C8_Witness ==
    /\ pc = "guessed"
    /\ guess.confidence.t = 10
    /\ question.type = "mcq"
    /\ wordCountOf(question.text) > 25

\* C30: for every text and declared type, the confidence guessBloomAndKD has
\* computed before the clamp lies between 0.4 and 1.0, so Math.min(1,
\* Math.max(0.1, confidence)) leaves it as it is and the returned confidence is
\* never below 0.4.
C30_ClampNeverApplies ==
    pc = "guessed" =>
        \A s \in {scoreBloomAndKD(question.text, question.type)} :
            /\ s.confidence # NaN
            /\ ~FLess(s.confidence, Dbl(4))
            /\ ~FLess(Dbl(10), s.confidence)
            /\ clamp(s.confidence) = s.confidence
            /\ guess.confidence = s.confidence
            /\ ~FLess(guess.confidence, Dbl(4))

C30_Witness ==
    /\ pc = "guessed"
    /\ scoreBloomAndKD(question.text, question.type).confidence = Dbl(4)
    /\ guess.confidence = Dbl(4)
    /\ wordCountOf(toLowerCase(question.text)) < 8

\* the confidence a record carries is a number below 0.7: the rule-based
\* handler stores a double, the OpenAI handler the JSON value of the reply
isBelowThreshold(confidence) ==
    IF variant = "llm"
    THEN /\ confidence.json = "number"
         /\ roundsBelow(confidence.number, SevenTenths)
    ELSE /\ confidence # NaN
         /\ (confidence.t < 7 \/ (confidence.t = 7 /\ confidence.e < 0))

\* C9: in every classification record produced, needs_review is true if and
\* only if the record's confidence is below 0.7.
C9_NeedsReviewIffLowConfidence ==
    pc = "served" =>
        \A n \in 1..Len(response.records) :
            response.records[n].needs_review
                <=> isBelowThreshold(response.records[n].confidence)

\* what holds of C9: the records of the rule-based handler, and those of
\* the OpenAI handler whose confidence is a number
NeedsReviewIffLowNumber ==
    pc = "served" =>
        \A n \in 1..Len(response.records) :
            (variant = "rules" \/ response.records[n].confidence.json = "number")
                => (response.records[n].needs_review
                        <=> isBelowThreshold(response.records[n].confidence))

\* a record of the OpenAI handler that needs no review although its
\* confidence is no number
UnreadableConfidencePasses ==
    /\ pc = "served" /\ variant = "llm"
    /\ Len(response.records) = 1
    /\ response.records[1].confidence.json \in {"string", "undefined"}
    /\ ~response.records[1].needs_review

\* C10: a question of declared type essay is never classified with
\* knowledge_dimension = "factual", by guessBloomAndKD or in the record built from it.
C10_EssayNeverFactual ==
    (variant = "rules" /\ question.type = "essay") =>
        /\ pc = "guessed" => guess.knowledge_dimension # "factual"
        /\ pc = "served" =>
              \A n \in 1..Len(response.records) :
                  response.records[n].knowledge_dimension # "factual"

C10_Witness ==
    /\ pc = "guessed"
    /\ question.type = "essay"
    /\ guess.knowledge_dimension = "conceptual"
    /\ guessBloomAndKD(question.text, "mcq").knowledge_dimension = "factual"
    /\ guess.bloom_level = "understanding"

\* no cue verb of either table and no indicator phrase occurs in the text
MatchesNoCue(text) ==
    LET t == toLowerCase(text)
    IN  /\ \A i \in 1..Len(BLOOM_VERB_MAP) : ~bloomVerbHit(t, BLOOM_VERB_MAP[i].verb)
        /\ \A i \in 1..Len(KNOWLEDGE_DIMENSION_MAP) :
               ~kdVerbHit(t, KNOWLEDGE_DIMENSION_MAP[i].verb)
        /\ \A i \in 1..Len(KNOWLEDGE_INDICATORS) :
               ~indicatorHit(t, KNOWLEDGE_INDICATORS[i].indicators)

\* C11: classification never fails: every text that matches no cue verb and no
\* indicator phrase, the text of length 0 included, is accepted from an
\* authenticated caller and classified understanding / conceptual with needs_review.
C11_NoCueTextGetsDefaults ==
    (pc = "served" /\ variant = "rules" /\ response.status # 401
        /\ MatchesNoCue(question.text)) =>
        /\ response.status = 200
        /\ Len(response.records) = 1
        /\ response.records[1].cognitive_level = "understanding"
        /\ response.records[1].knowledge_dimension = "conceptual"
        /\ response.records[1].needs_review

Letters == {LowerChars[i] : i \in 1..26}

\* the verb is the first word of the text
FirstWordIs(t, verb) ==
    /\ startsWith(t, verb)
    /\ Len(t) = Len(verb) \/ t[Len(verb) + 1] \notin Letters

\* the verb stands between two spaces
SpacedWordIs(t, verb) == includes(t, <<" ">> \o verb \o <<" ">>)

\* the verb, a word of its own, is immediately followed by a colon
ColonWordIs(t, verb) ==
    \/ startsWith(t, verb \o <<":">>)
    \/ includes(t, <<" ">> \o verb \o <<":">>)

\* C16: a cue verb counts only as a whole word (first word of the text, between
\* spaces, or followed by a colon): a text in which no verb of BLOOM_VERB_MAP
\* occurs as a whole word gets the default level, and one in which no verb of
\* KNOWLEDGE_DIMENSION_MAP occurs as a whole word and no indicator phrase occurs
\* gets the default dimension.
C16_VerbsMatchWholeWordsOnly ==
    pc = "guessed" =>
        LET t == toLowerCase(question.text)
        IN  /\ (\A i \in 1..Len(BLOOM_VERB_MAP) :
                    LET verb == BLOOM_VERB_MAP[i].verb
                    IN  ~(FirstWordIs(t, verb) \/ SpacedWordIs(t, verb) \/ ColonWordIs(t, verb)))
                => guess.bloom_level = "understanding"
            /\ ((\A i \in 1..Len(KNOWLEDGE_DIMENSION_MAP) :
                    LET verb == KNOWLEDGE_DIMENSION_MAP[i].verb
                    IN  ~(FirstWordIs(t, verb) \/ SpacedWordIs(t, verb)))
                 /\ \A i \in 1..Len(KNOWLEDGE_INDICATORS) :
                        ~indicatorHit(t, KNOWLEDGE_INDICATORS[i].indicators))
                => guess.knowledge_dimension = "conceptual"

WhichOfTheFollowing == <<"w","h","i","c","h"," ","o","f"," ","t","h","e"," ","f","o","l","l","o","w","i","n","g">>

\* 1 when the condition holds, else 0
Bit(cond) == IF cond THEN 1 ELSE 0

\* tenths added to the confidence for length and type
LengthAndTypeTenths(t, type, bloom) ==
    Bit(wordCountOf(t) > 25) - Bit(wordCountOf(t) < 8)
        + Bit(type = "mcq" /\ includes(t, WhichOfTheFollowing))
        + Bit(type = "essay" /\ bloom = "creating")

\* entries of BLOOM_VERB_MAP whose verb matches the text
MatchingVerbs(t) ==
    { i \in 1..Len(BLOOM_VERB_MAP) : bloomVerbHit(t, BLOOM_VERB_MAP[i].verb) }

\* C17: when several cue verbs match, the level is that of the matching verb
\* earliest in BLOOM_VERB_MAP, wherever the verbs stand in the text, and a single
\* verb hit is counted in the confidence; when none matches the level is
\* "understanding"; the scenario text as mcq is remembering / factual.
C17_FirstVerbInTableWins ==
    pc = "guessed" =>
        LET t == toLowerCase(question.text)
            M == MatchingVerbs(t)
        IN  /\ M = {} => guess.bloom_level = "understanding"
            /\ \A i \in M :
                  (\A j \in M : i <= j) =>
                      /\ guess.bloom_level = BLOOM_VERB_MAP[i].bloom
                      /\ guess.confidence.t
                            = 7 + Bit(\E k \in 1..Len(KNOWLEDGE_DIMENSION_MAP) :
                                        kdVerbHit(t, KNOWLEDGE_DIMENSION_MAP[k].verb))
                                + LengthAndTypeTenths(t, question.type, guess.bloom_level)
            /\ (question.text = ScenarioText /\ question.type = "mcq") =>
                  /\ guess.bloom_level = "remembering"
                  /\ guess.knowledge_dimension = "factual"

C17_Witness ==
    /\ pc = "guessed"
    /\ startsWith(question.text, <<"c","r","e","a","t","e"," ","D","e","f","i","n","e"," ">>)
    /\ Cardinality(MatchingVerbs(toLowerCase(question.text))) = 2
    /\ guess.bloom_level = "remembering"
    /\ guess.confidence.t = 8

\* the dimensions in the order the fallback tries them
DimensionOrder == <<"factual", "conceptual", "procedural", "metacognitive">>

\* an indicator phrase of dimension d occurs in the text
DimensionIndicated(t, d) ==
    \E i \in 1..Len(KNOWLEDGE_INDICATORS) :
        KNOWLEDGE_INDICATORS[i].kd = d /\ indicatorHit(t, KNOWLEDGE_INDICATORS[i].indicators)

\* the dimension of the first matching verb of KNOWLEDGE_DIMENSION_MAP, else the default
DimensionByVerb(t) ==
    LET K == { i \in 1..Len(KNOWLEDGE_DIMENSION_MAP) :
                  kdVerbHit(t, KNOWLEDGE_DIMENSION_MAP[i].verb) }
    IN  IF K = {} THEN "conceptual"
        ELSE KNOWLEDGE_DIMENSION_MAP[CHOOSE i \in K : \A j \in K : i <= j].kd

\* C18: the indicator phrases decide the dimension exactly when no cue verb
\* matched in the cognitive-level scan: then the dimension is the first of
\* factual, conceptual, procedural, metacognitive with an indicator phrase in the
\* text; the default is "conceptual" (an essay's factual becoming conceptual).
C18_IndicatorsOnlyWithoutVerb ==
    pc = "guessed" =>
        LET t == toLowerCase(question.text)
            D == { n \in 1..4 : DimensionIndicated(t, DimensionOrder[n]) }
            kd == IF MatchingVerbs(t) = {} /\ D # {}
                  THEN DimensionOrder[CHOOSE n \in D : \A m \in D : n <= m]
                  ELSE DimensionByVerb(t)
        IN  guess.knowledge_dimension
                = (IF question.type = "essay" /\ kd = "factual" THEN "conceptual" ELSE kd)

C18_Witness ==
    /\ pc = "guessed"
    /\ question.type = "mcq"
    /\ startsWith(question.text, <<"c","r","e","a","t","e"," ","w","h","a","t"," ","i","s">>)
    /\ DimensionIndicated(toLowerCase(question.text), "factual")
    /\ guess.bloom_level = "creating"
    /\ guess.knowledge_dimension = "conceptual"

\* C19: the confidence is 0.5, plus 0.2 if a cue verb matched, plus 0.1 if a
\* knowledge dimension was matched (never more than 0.1), minus 0.1 under 8
\* words, plus 0.1 over 25 words, plus 0.1 for an mcq with "which of the
\* following", plus 0.1 for an essay classified creating; the scenario text as
\* mcq gets at least 0.7.  (Tenths; the sum lies within the clamp's range.)
C19_ConfidenceIsSumOfTerms ==
    pc = "guessed" =>
        LET t == toLowerCase(question.text)
            verbMatched == MatchingVerbs(t) # {}
            dimensionMatched ==
                \/ \E k \in 1..Len(KNOWLEDGE_DIMENSION_MAP) :
                       kdVerbHit(t, KNOWLEDGE_DIMENSION_MAP[k].verb)
                \/ ~verbMatched /\ \E n \in 1..4 : DimensionIndicated(t, DimensionOrder[n])
        IN  /\ guess.confidence.t
                  = 5 + 2 * Bit(verbMatched) + Bit(dimensionMatched)
                      + LengthAndTypeTenths(t, question.type, guess.bloom_level)
            /\ (question.text = ScenarioText /\ question.type = "mcq") =>
                  ~FLess(guess.confidence, Dbl(7))

\* a keyword of the list occurs in the text
HasKeyword(t, keywords) == \E n \in 1..Len(keywords) : includes(t, keywords[n])

\* C20: difficulty is decided by keyword, then structure, then level: an easy
\* keyword gives easy and otherwise a difficult keyword gives difficult, whatever
\* the type, length, punctuation and level; without keywords an essay, more than
\* 30 words or more than 6 punctuation marks give difficult, more than 15 words
\* or more than 3 marks give average; otherwise remembering / understanding are
\* easy, evaluating / creating difficult and the other levels average.
C20_DifficultyKeywordThenStructureThenLevel ==
    (pc = "served" /\ variant = "rules" /\ response.status = 200) =>
        LET t == toLowerCase(question.text)
            r == response.records[1]
            words == wordCountOf(t)
            marks == complexityScoreOf(t)
        IN  /\ HasKeyword(t, easyIndicators) => r.difficulty = "easy"
            /\ (~HasKeyword(t, easyIndicators) /\ HasKeyword(t, difficultIndicators))
                  => r.difficulty = "difficult"
            /\ (~HasKeyword(t, easyIndicators) /\ ~HasKeyword(t, difficultIndicators)) =>
                  /\ (question.type = "essay" \/ words > 30 \/ marks > 6)
                        => r.difficulty = "difficult"
                  /\ (question.type # "essay" /\ words <= 30 /\ marks <= 6
                        /\ (words > 15 \/ marks > 3)) => r.difficulty = "average"
                  /\ (question.type # "essay" /\ words <= 15 /\ marks <= 3) =>
                        r.difficulty
                            = (IF r.bloom_level \in {"remembering", "understanding"} THEN "easy"
                               ELSE IF r.bloom_level \in {"evaluating", "creating"}
                                    THEN "difficult"
                                    ELSE "average")

C20_Witness ==
    /\ pc = "served"
    /\ variant = "rules"
    /\ response.status = 200
    /\ question.type = "essay"
    /\ wordCountOf(question.text) > 30
    /\ HasKeyword(toLowerCase(question.text), easyIndicators)
    /\ HasKeyword(toLowerCase(question.text), difficultIndicators)
    /\ response.records[1].bloom_level = "understanding"
    /\ response.records[1].difficulty = "easy"

-----------------------------------------------------------------------------
(* Properties of the similarity search *)

\* the rows the search compares the query with
Compared == questionsExcept(corpus, request.questionId)

\* similarity of the query to the row with the given id
ScoreOfRow(q) == calculateCosineSimilarity(request.questionText, q.question_text)

\* x > y on doubles
SimGreater(x, y) == SimGeq(x, y) /\ x # y

\* C12: the returned list holds only compared rows whose similarity to the
\* query is >= threshold, is ordered by non-increasing similarity, has at most 10
\* entries, and no matching row left out scores strictly higher than a returned one.
C12_TopTenByDescendingSimilarity ==
    (pc = "searched" /\ similar.status = 200) =>
        LET out == similar.similarities
            returned == {out[i].questionId : i \in 1..Len(out)}
        IN  /\ Len(out) <= 10
            /\ \A i \in 1..Len(out) :
                  \E k \in 1..Len(Compared) :
                      /\ Compared[k].id = out[i].questionId
                      /\ out[i].similarity = ScoreOfRow(Compared[k])
                      /\ SimGeq(out[i].similarity, thresholdOf(request))
            /\ \A i \in 1..(Len(out) - 1) : SimGeq(out[i].similarity, out[i + 1].similarity)
            /\ \A k \in 1..Len(Compared) :
                  (Compared[k].id \notin returned
                      /\ SimGeq(ScoreOfRow(Compared[k]), thresholdOf(request))) =>
                      \A i \in 1..Len(out) :
                          ~SimGreater(ScoreOfRow(Compared[k]), out[i].similarity)

C12_Witness ==
    /\ pc = "searched"
    /\ similar.status = 200
    /\ similar.total > 10
    /\ Len(similar.similarities) = 10
    /\ SimGreater(similar.similarities[1].similarity, similar.similarities[10].similarity)
    /\ SimGreater(ScoreOfRow(corpus[1]), ScoreOfRow(corpus[2]))
    /\ \E k \in 1..Len(Compared) :
          /\ SimGeq(ScoreOfRow(Compared[k]), thresholdOf(request))
          /\ \A i \in 1..10 : similar.similarities[i].questionId # Compared[k].id

\* C13: a similarity search never writes to storage: the question_similarities
\* table is the same after the request as before, whatever the query, the
\* question id and the threshold.
C13_SearchNeverWrites == [][stored' = stored]_vars

-----------------------------------------------------------------------------
(* Properties of the fingerprint vector *)

\* h := h * 31 + charCode, each step wrapped to 32 bits
RECURSIVE PolyHash(_, _, _)
PolyHash(str, i, h) ==
    IF i > Len(str) THEN h
    ELSE LET lo0 == 31 * h.lo + charCodeAt(str[i])
             next == [hi |-> (31 * h.hi + lo0 \div Limb) % Limb, lo |-> lo0 % Limb]
         IN  CASE next \in Int32 -> PolyHash(str, i + 1, next)

\* the absolute value of a wrapped value, as sign and magnitude
Magnitude(h) ==
    IF h.hi < Limb \div 2 THEN [neg |-> FALSE, hi |-> h.hi, lo |-> h.lo]
    ELSE IF h.lo = 0 THEN [neg |-> FALSE, hi |-> Limb - h.hi, lo |-> 0]
    ELSE [neg |-> FALSE, hi |-> Limb - 1 - h.hi, lo |-> Limb - h.lo]

VectorWordsOf(text) == split(toLowerCase(text))

\* C21: for every token, simpleHash is the absolute value of the polynomial
\* hash h * 31 + charCode wrapped to a signed 32-bit integer at each step; it
\* is never negative, also where the wrapped value is -2^31; the bucket index
\* is in 0..49; the vector has exactly 50 components and its un-normalized
\* counts sum to the number of tokens.
C21_HashBucketsCountEveryToken ==
    pc = "hashed" =>
        LET words == VectorWordsOf(vectorText)
        IN  /\ \A i \in 1..Len(words) :
                  /\ simpleHash(words[i]) = Magnitude(PolyHash(words[i], 1, Int32Zero))
                  /\ ~simpleHash(words[i]).neg
                  /\ bucketOf(simpleHash(words[i])) \in 0..49
            /\ DOMAIN vector = 0..49
            /\ LET hits == { b \in DOMAIN vector : vector[b].num # 0 }
               IN  SumOver([b \in hits |-> vector[b].num], hits) = Len(words)

C21_Witness ==
    /\ pc = "hashed"
    /\ \E i \in 1..Len(VectorWordsOf(vectorText)) :
          /\ hashLoop(VectorWordsOf(vectorText)[i], 1, Int32Zero) = [hi |-> 32768, lo |-> 0]
          /\ bucketOf(simpleHash(VectorWordsOf(vectorText)[i])) = 48
    /\ \E i \in 1..Len(VectorWordsOf(vectorText)) : VectorWordsOf(vectorText)[i] = <<>>
    /\ \E b \in DOMAIN vector : vector[b].num >= 2

-----------------------------------------------------------------------------
(* Properties of the validation workflow *)

\* C22: after any sequence of validate, reject and batch_validate requests,
\* a question whose validation_status is "validated" has needs_review false,
\* and one whose validation_status is "rejected" has needs_review true.
C22_ValidatedNeedsNoReview ==
    \A id \in DOMAIN questionRows :
        /\ questionRows[id].validation_status = "validated" => ~questionRows[id].needs_review
        /\ questionRows[id].validation_status = "rejected" => questionRows[id].needs_review

-----------------------------------------------------------------------------
(* Properties of the rubrics endpoint *)

\* C23: a POST or PUT request that ends with an error response leaves the
\* stored rubrics and the stored criteria exactly as they were before the
\* request: none of its calls has altered a table.
C23_FailedWriteLeavesStoreAlone ==
    \A f \in 1..Len(rubricFlights) :
        (/\ rubricFlights[f].request.method \in {"POST", "PUT"}
         /\ rubricFlights[f].at = "done"
         /\ rubricFlights[f].response.status >= 400)
            => ~rubricFlights[f].changed

\* C24: a POST, PUT or DELETE request is executed only for an authenticated
\* user; without one the handler answers 401 and performs no insert, update
\* or delete.
C24_WritesNeedAuthenticatedUser ==
    \A f \in 1..Len(rubricFlights) :
        (/\ rubricFlights[f].request.method \in {"POST", "PUT", "DELETE"}
         /\ rubricFlights[f].request.user = "none")
            => /\ ~rubricFlights[f].changed
               /\ rubricFlights[f].at = "done" => rubricFlights[f].response.status = 401

-----------------------------------------------------------------------------
(* Properties of useAnalytics *)

AllSettled ==
    /\ pc = "mounted"
    /\ changeEvents = 0
    /\ \A f \in 1..Len(fetches) : fetches[f].stage = "done"

\* C25: under any interleaving of the initial fetch and the fetches started
\* by realtime events, once every fetch has completed the analytics state
\* holds the data of the most recently started fetch, loading is false, and
\* aiQuestions + teacherQuestions = totalQuestions.
C25_LatestFetchWins ==
    (AllSettled /\ variant = "analytics") =>
        /\ ~analytics.loading
        /\ plus(analytics.aiQuestions, analytics.teacherQuestions)
              = Number(analytics.totalQuestions)
        /\ ~fetches[Len(fetches)].error =>
              analytics = analyticsOf(fetches[Len(fetches)].rows)

-----------------------------------------------------------------------------
(* Properties of the choice shuffle *)

\* the choice text an answer designates: the value under the key it names,
\* or the text itself where it is one of the choice texts
Designated(q) ==
    IF \E i \in 1..Len(q.choices) : q.choices[i].key = q.correct_answer
    THEN q.choices[CHOOSE i \in 1..Len(q.choices) : q.choices[i].key = q.correct_answer].value
    ELSE IF \E i \in 1..Len(q.choices) : q.choices[i].value = q.correct_answer
    THEN q.correct_answer
    ELSE "nothing"

TextCount(q, t) == Cardinality({ i \in 1..Len(q.choices) : q.choices[i].value = t })

\* C26: for an mcq question whose correct_answer designates one of its
\* choices, by key or by text, the shuffled question's correct_answer
\* designates the same choice text, and the returned choices are exactly the
\* original choice texts under new keys.
C26_ShuffleKeepsCorrectChoice ==
    (/\ pc = "shuffled"
     /\ original.question_type = "mcq"
     /\ original.choices # NoChoices
     /\ Designated(original) # "nothing") =>
        /\ Designated(shuffledQuestion) = Designated(original)
        /\ Len(shuffledQuestion.choices) = Len(original.choices)
        /\ \A i \in 1..Len(original.choices) :
              TextCount(shuffledQuestion, original.choices[i].value)
                  = TextCount(original, original.choices[i].value)

-----------------------------------------------------------------------------
(* Properties of the exam formats *)

RECURSIVE SumCounts(_)
SumCounts(reqs) == IF reqs = <<>> THEN 0 ELSE Head(reqs).count + SumCounts(Tail(reqs))

\* C27: for each predefined format and every totalItems >= 1 the scaled
\* sections are contiguous (the first starts at 1, each next one at the
\* previous end + 1), the last ends at totalItems, no section has a negative
\* item count, and the counts of getFormatRequirements sum to totalItems.
C27_ScaledSectionsPartitionItems ==
    /\ (variant = "formats" /\ itemsRequested >= 1 /\ scaledSections # <<>>) =>
          /\ Len(scaledSections) = Len(EXAM_FORMATS[examFormat].sections)
          /\ scaledSections[1].startNumber = 1
          /\ \A i \in 2..Len(scaledSections) :
                scaledSections[i].startNumber = scaledSections[i - 1].endNumber + 1
          /\ scaledSections[Len(scaledSections)].endNumber = itemsRequested
          /\ \A i \in 1..Len(scaledSections) :
                scaledSections[i].endNumber - scaledSections[i].startNumber + 1 >= 0
    /\ (variant = "formats" /\ itemsRequested >= 1 /\ pc = "required") =>
          /\ SumCounts(requirements) = itemsRequested
          /\ \A i \in 1..Len(requirements) : requirements[i].count >= 0

C27_Witness ==
    /\ pc = "required"
    /\ EXAM_FORMATS[examFormat].id = "format_2"
    /\ itemsRequested = 5
    /\ Len(scaledSections) = 3
    /\ scaledSections[1].endNumber = 4
    /\ scaledSections[3].startNumber = 6 /\ scaledSections[3].endNumber = 5
    /\ requirements[1].count = 4 /\ requirements[2].count = 1 /\ requirements[3].count = 0

-----------------------------------------------------------------------------
(* Properties of generate-questions *)

\* a generated item as the specification wants it: a text longer than 10
\* characters, non-empty choices A to D, and an answer among A to D
WellFormed(text, choices, answer) ==
    /\ text # Nil /\ Len(text) > 10
    /\ choices # NullChoices
    /\ Len(choices.A) > 0 /\ Len(choices.B) > 0 /\ Len(choices.C) > 0 /\ Len(choices.D) > 0
    /\ answer \in {"A", "B", "C", "D"}

\* the checks of the handler in the order of the specification
CHECKS == <<"authenticated", "validated", "parsed", "filtered">>

\* C29: rows are inserted only after, in this order, the caller is
\* authenticated, the request passes schema validation, the AI reply is
\* received and parsed, and at least one generated question passes
\* validation; every inserted row passed that validation and is stored with
\* approved = false and created_by = "ai"; on every error path nothing is
\* inserted.
C29_InsertOnlyAfterAllChecks ==
    /\ \E n \in 0..Len(CHECKS) : checksPassed = SubSeq(CHECKS, 1, n)
    /\ pc = "inserting" => checksPassed = CHECKS
    /\ insertedRows # <<>> =>
          /\ checksPassed = CHECKS
          /\ genRequest.auth = "teacher"
          /\ generateSchemaAccepts(genRequest.body)
          /\ genReply.ok /\ genReply.parses /\ genReply.items = "array"
          /\ \E i \in 1..Len(genReply.list) :
                WellFormed(genReply.list[i].text, genReply.list[i].choices,
                           genReply.list[i].correct_answer)
          /\ \A r \in 1..Len(insertedRows) :
                /\ WellFormed(insertedRows[r].question_text, insertedRows[r].choices,
                              insertedRows[r].correct_answer)
                /\ \E i \in 1..Len(genReply.list) :
                      /\ genReply.list[i].text = insertedRows[r].question_text
                      /\ genReply.list[i].correct_answer = insertedRows[r].correct_answer
                /\ insertedRows[r].approved = FALSE
                /\ insertedRows[r].created_by = "ai"
    /\ genResponse.status >= 400 => insertedRows = <<>>
    /\ (pc = "responded" /\ genResponse.status = 200) => insertedRows # <<>>

C29_Witness ==
    /\ pc = "responded"
    /\ genResponse.status = 200
    /\ Len(genReply.list) = 2
    /\ Len(insertedRows) = 1
    /\ \E i \in 1..2 : genReply.list[i].correct_answer = "E"
    /\ insertedRows[1].approved = FALSE /\ insertedRows[1].created_by = "ai"

====
